---- MODULE Spec2Model ----
(***************************************************************************)
(* A model of pyledctrl: the abstract syntax tree of LED light programs,   *)
(* its bytecode encoder and decoder, the AST optimisers, the executor, the *)
(* random-access player and the compilation plan.                          *)
(*                                                                         *)
(* Bytes are integers in 0..255 and byte strings are sequences of bytes.   *)
(* An AST node is a record whose "op" field is the name of its class and   *)
(* whose other fields are the fields of the class (the _fields tuple).     *)
(* A StatementSequence is the sequence of its statements.  Time is kept in *)
(* frames (1/50 s), so that Duration.value / FPS needs no fractions.       *)
(***************************************************************************)
EXTENDS Integers, Sequences, FiniteSets, TLC

VARIABLES
    pc,          \* position of the driver: which operation was applied last
    ast,         \* the abstract syntax tree (statements of the root sequence)
    bytecode,    \* result of the last to_bytecode() call
    parsed,      \* result of the last StatementSequence.from_bytecode() call
    source,      \* result of the last to_led_source() call, line by line
    number,      \* the integer handed to to_varuint
    trailing,    \* the bytes that follow the varuint in the stream
    stream,      \* the byte stream Varuint.from_bytecode reads
    varuint,     \* result of the last Varuint.from_bytecode() call
    level,       \* the optimisation level
    optimised,   \* outcome of create_optimiser_for_level(level).optimise(ast)
    merged,      \* outcome of CommandMerger().optimise(ast)
    states,      \* what Executor().execute yields for ast
    opt_states,  \* what Executor().execute yields for the optimised tree
    shortened,   \* outcome of ColorCommandShortener().optimise(ast)
    looped,      \* outcome of LoopDetector().optimise(ast)
    again,       \* outcome of each child optimiser on the optimised tree
    events,          \* Player._events
    last_event_time, \* Player._last_event_time
    event_iter,      \* Player._event_iter
    queries,         \* the timestamps still to be asked of the player
    answers,         \* the outcome of every get_color_at call so far
    steps,        \* Plan._steps
    output_steps, \* Plan._output_steps
    callbacks,    \* Plan._callbacks: the done callbacks of each stage
    should_run,   \* what should_run() of each stage returns
    force,        \* the force argument of Plan.execute
    step_index,   \* local step_index of Plan.execute
    num_steps,    \* local num_steps of Plan.execute
    considered,   \* the stages the loop of Plan.execute has looked at, in order
    ran,          \* the stages whose run() was called, in order
    step_attrs,   \* the output attributes each stage has
    executions,   \* the number of calls of Plan.execute so far
    invoked,      \* the calls of run() and of done callbacks so far, in order
    executor,     \* an Executor whose generator is run statement by statement
    previous,     \* that executor before the statement executed last
    position,     \* the number of statements of ast executed on it
    unrolled,     \* what unroll yields for the states of the executor
    fps,          \* the frame rate that unroll is asked for
    frames        \* the loops the generator of the player is within

codecVars == <<ast, bytecode, parsed, source>>
varuintVars == <<number, trailing, stream, varuint>>
optVars == <<level, optimised, merged, states, opt_states, shortened, looped,
            again>>
playerVars == <<events, last_event_time, event_iter, queries, answers>>
planVars == <<steps, output_steps, callbacks, should_run, force, step_index,
              num_steps, considered, ran, step_attrs, executions, invoked>>

execVars == <<executor, previous, position, unrolled, fps, frames>>

vars == <<pc, codecVars, varuintVars, optVars, playerVars, planVars,
          execVars>>

-----------------------------------------------------------------------------
(* Bounds of the model.                                                    *)

\* Largest number of nodes (commands, comments, loop blocks) of a tree of
\* the codec specification
MaxNodes == 3

\* Every integer up to this one is encoded as a varuint (with the values at
\* which the encoding grows by a byte)
MaxSmallValue == 130

\* Largest number of nodes of a tree handed to the optimisers
MaxOptNodes == 3

\* Number of rounds after which a loop block of zero iterations, which the
\* executor repeats for ever, is cut off
MaxEndlessIterations == 2

\* Every frame up to this one is looked at when two executions are compared
MaxFrame == 120

\* Largest number of nodes of a short program handed to the player
MaxPlayerNodes == 2

\* Largest number of get_color_at calls made on one player
MaxQueries == 3

\* Longest period of the periodic sequences handed to the loop detector
MaxPeriod == 8

\* Largest number of copies of the period in such a sequence
MaxRepeats == 3

\* Longest run of one command handed to the loop detector
MaxRunLength == 257

\* Longest stream of bytes, written freely, that is handed to the parser
MaxBytes == 4

\* Largest number of nodes of a tree executed statement by statement
MaxExecNodes == 3

\* Largest number of stages of a plan before it is executed
MaxStages == 2

\* Number of times the loop of Plan.execute is followed looking at stages
MaxConsidered == 6

\* Largest number of done callbacks registered on the stages of a plan
MaxCallbacks == 3

\* Largest number of calls of Plan.execute on one plan
MaxExecutions == 2

-----------------------------------------------------------------------------
(* Command codes: class CommandCode.                                       *)

END == 0
NOP == 1
SLEEP == 2
WAIT_UNTIL == 3
SET_COLOR == 4
SET_GRAY == 5
SET_BLACK == 6
SET_WHITE == 7
FADE_TO_COLOR == 8
FADE_TO_GRAY == 9
FADE_TO_BLACK == 10
FADE_TO_WHITE == 11
LOOP_BEGIN == 12
LOOP_END == 13
RESET_TIMER == 14
SET_COLOR_FROM_CHANNELS == 16
FADE_TO_COLOR_FROM_CHANNELS == 17
JUMP == 18
TRIGGERED_JUMP == 19
SET_PYRO == 20
SET_PYRO_ALL == 21

\* Varuint._set_value rejects values >= 2**28
VaruintLimit == 268435456

-----------------------------------------------------------------------------
(* Literals.                                                               *)

\* to_varuint mutated: the continuation flag is set on the last byte too
RECURSIVE to_varuint_flag_on_last(_)
to_varuint_flag_on_last(value) ==
    IF value < 128 THEN <<IF value = 0 THEN 0 ELSE value + 128>>
    ELSE <<(value % 128) + 128>> \o to_varuint_flag_on_last(value \div 128)

\* to_varuint: 7 bits per byte, least significant group first
RECURSIVE to_varuint(_)
to_varuint(value) ==
    IF value < 128 THEN <<value>>
    ELSE <<(value % 128) + 128>> \o to_varuint(value \div 128)

\* Results of reading from a stream: the error raised ("none" when the read
\* succeeded), the value read and the rest of the stream
Read(value, rest) == [err |-> "none", value |-> value, rest |-> rest]
Raise(err, rest) == [err |-> err, value |-> 0, rest |-> rest]

\* (x & 0x7F) << shift, where mult = 2^shift.  Python integers are unbounded;
\* every value >= 2**28 is rejected alike by Varuint._set_value, so the
\* model saturates at 2**28.
Shifted(x, mult) ==
    IF mult >= VaruintLimit
    THEN IF x % 128 > 0 THEN VaruintLimit ELSE 0
    ELSE (x % 128) * mult

Saturate(v) == IF v >= VaruintLimit THEN VaruintLimit ELSE v

\* Varuint.from_bytecode mutated: the loop stops after two bytes
RECURSIVE Varuint_two_bytes(_, _, _)
Varuint_two_bytes(data, value, mult) ==
    IF data = <<>> THEN Raise("BytecodeParserEOFError", data)
    ELSE LET x == Head(data)
             v == Saturate(value + Shifted(x, mult))
         IN  IF x < 128 \/ mult >= 128
             THEN Read(v, Tail(data))
             ELSE Varuint_two_bytes(Tail(data), v, mult * 128)

\* Varuint.from_bytecode mutated: the end of the stream ends the varuint
RECURSIVE Varuint_loop_ended_by_eof(_, _, _)
Varuint_loop_ended_by_eof(data, value, mult) ==
    IF data = <<>> THEN Read(value, data)
    ELSE LET x == Head(data)
             v == Saturate(value + Shifted(x, mult))
         IN  IF x < 128
             THEN IF v >= VaruintLimit
                  THEN Raise("ValueError", Tail(data))
                  ELSE Read(v, Tail(data))
             ELSE Varuint_loop_ended_by_eof(Tail(data), v,
                                            IF mult >= VaruintLimit
                                            THEN VaruintLimit
                                            ELSE mult * 128)

\* Varuint.from_bytecode: the loop over the bytes of the stream, then
\* cls(value), whose _set_value raises ValueError for values >= 2**28
RECURSIVE Varuint_loop(_, _, _)
Varuint_loop(data, value, mult) ==
    IF data = <<>> THEN Raise("BytecodeParserEOFError", data)
    ELSE LET x == Head(data)
             v == Saturate(value + Shifted(x, mult))
         IN  IF x < 128
             THEN IF v >= VaruintLimit
                  THEN Raise("ValueError", Tail(data))
                  ELSE Read(v, Tail(data))
             ELSE Varuint_loop(Tail(data), v,
                               IF mult >= VaruintLimit THEN VaruintLimit
                               ELSE mult * 128)

Varuint_from_bytecode(data) == Varuint_loop(data, 0, 1)

\* UnsignedByte.from_bytecode
UnsignedByte_from_bytecode(data) ==
    IF data = <<>> THEN Raise("BytecodeParserEOFError", data)
    ELSE Read(Head(data), Tail(data))

\* 1 << bit
RECURSIVE Pow2(_)
Pow2(bit) == IF bit = 0 THEN 1 ELSE 2 * Pow2(bit - 1)

\* The channels whose bit is set in a byte: the loop of
\* ChannelMask.from_bytecode and ChannelValues.from_bytecode
ChannelsOf(value) == {index \in 0..6 : (value \div Pow2(index)) % 2 = 1}

\* The "result |= 1 << bit" loop of _to_byte
RECURSIVE BitsOf(_)
BitsOf(channels) ==
    IF channels = {} THEN 0
    ELSE LET bit == CHOOSE b \in channels : TRUE
         IN  Pow2(bit) + BitsOf(channels \ {bit})

\* ChannelMask._to_byte and ChannelMask.from_bytecode
ChannelMask_to_byte(mask) ==
    (BitsOf(mask.channels) % 128) + (IF mask.enable THEN 128 ELSE 0)

ChannelMask_from_bytecode(data) ==
    IF data = <<>> THEN Raise("BytecodeParserEOFError", data)
    ELSE Read([enable |-> Head(data) >= 128, channels |-> ChannelsOf(Head(data))],
              Tail(data))

\* ChannelValues._to_byte and ChannelValues.from_bytecode
ChannelValues_to_byte(values) == BitsOf(values.channels) % 128

ChannelValues_from_bytecode(data) ==
    IF data = <<>> THEN Raise("BytecodeParserEOFError", data)
    ELSE Read([channels |-> ChannelsOf(Head(data))], Tail(data))

\* RGBColor.to_bytecode (struct "BBB")
RGBColor_to_bytecode(color) == <<color.red, color.green, color.blue>>

-----------------------------------------------------------------------------
(* Nodes of the abstract syntax tree.                                      *)

RGBColor(r, g, b) == [red |-> r, green |-> g, blue |-> b]

EndCommand == [op |-> "EndCommand"]
NopCommand == [op |-> "NopCommand"]
SleepCommand(d) == [op |-> "SleepCommand", duration |-> d]
WaitUntilCommand(t) == [op |-> "WaitUntilCommand", timestamp |-> t]
SetColorCommand(c, d) == [op |-> "SetColorCommand", color |-> c, duration |-> d]
SetGrayCommand(v, d) == [op |-> "SetGrayCommand", value |-> v, duration |-> d]
SetBlackCommand(d) == [op |-> "SetBlackCommand", duration |-> d]
SetWhiteCommand(d) == [op |-> "SetWhiteCommand", duration |-> d]
FadeToColorCommand(c, d) == [op |-> "FadeToColorCommand", color |-> c, duration |-> d]
FadeToGrayCommand(v, d) == [op |-> "FadeToGrayCommand", value |-> v, duration |-> d]
FadeToBlackCommand(d) == [op |-> "FadeToBlackCommand", duration |-> d]
FadeToWhiteCommand(d) == [op |-> "FadeToWhiteCommand", duration |-> d]
ResetTimerCommand == [op |-> "ResetTimerCommand"]
SetColorFromChannelsCommand(r, g, b, d) ==
    [op |-> "SetColorFromChannelsCommand", red_channel |-> r,
     green_channel |-> g, blue_channel |-> b, duration |-> d]
FadeToColorFromChannelsCommand(r, g, b, d) ==
    [op |-> "FadeToColorFromChannelsCommand", red_channel |-> r,
     green_channel |-> g, blue_channel |-> b, duration |-> d]
JumpCommand(a) == [op |-> "JumpCommand", address |-> a]
SetPyroCommand(enable, channels) ==
    [op |-> "SetPyroCommand", mask |-> [enable |-> enable, channels |-> channels]]
SetPyroAllCommand(channels) ==
    [op |-> "SetPyroAllCommand", values |-> [channels |-> channels]]
Comment(text) == [op |-> "Comment", value |-> text]
LoopBlock(n, stmts) == [op |-> "LoopBlock", iterations |-> n, body |-> stmts]

\* The direct subclasses of Command, in the order of their definition
\* (Command.__subclasses__())
CommandClasses ==
    <<"EndCommand", "NopCommand", "SleepCommand", "WaitUntilCommand",
      "SetColorCommand", "SetGrayCommand", "SetBlackCommand", "SetWhiteCommand",
      "FadeToColorCommand", "FadeToGrayCommand", "FadeToBlackCommand",
      "FadeToWhiteCommand", "ResetTimerCommand", "SetColorFromChannelsCommand",
      "FadeToColorFromChannelsCommand", "JumpCommand", "SetPyroCommand",
      "SetPyroAllCommand">>

\* The "code" class attribute of each command class
CodeOf(op) ==
    CASE op = "EndCommand" -> END
      [] op = "NopCommand" -> NOP
      [] op = "SleepCommand" -> SLEEP
      [] op = "WaitUntilCommand" -> WAIT_UNTIL
      [] op = "SetColorCommand" -> SET_COLOR
      [] op = "SetGrayCommand" -> SET_GRAY
      [] op = "SetBlackCommand" -> SET_BLACK
      [] op = "SetWhiteCommand" -> SET_WHITE
      [] op = "FadeToColorCommand" -> FADE_TO_COLOR
      [] op = "FadeToGrayCommand" -> FADE_TO_GRAY
      [] op = "FadeToBlackCommand" -> FADE_TO_BLACK
      [] op = "FadeToWhiteCommand" -> FADE_TO_WHITE
      [] op = "ResetTimerCommand" -> RESET_TIMER
      [] op = "SetColorFromChannelsCommand" -> SET_COLOR_FROM_CHANNELS
      [] op = "FadeToColorFromChannelsCommand" -> FADE_TO_COLOR_FROM_CHANNELS
      [] op = "JumpCommand" -> JUMP
      [] op = "SetPyroCommand" -> SET_PYRO
      [] op = "SetPyroAllCommand" -> SET_PYRO_ALL

\* The _fields tuple of each command class with the literal class that
\* _defaults gives for each field
FieldsOf(op) ==
    CASE op \in {"EndCommand", "NopCommand", "ResetTimerCommand"} -> <<>>
      [] op \in {"SleepCommand", "SetBlackCommand", "SetWhiteCommand",
                 "FadeToBlackCommand", "FadeToWhiteCommand"} ->
            << <<"duration", "Duration">> >>
      [] op = "WaitUntilCommand" -> << <<"timestamp", "Duration">> >>
      [] op \in {"SetColorCommand", "FadeToColorCommand"} ->
            << <<"color", "RGBColor">>, <<"duration", "Duration">> >>
      [] op \in {"SetGrayCommand", "FadeToGrayCommand"} ->
            << <<"value", "UnsignedByte">>, <<"duration", "Duration">> >>
      [] op \in {"SetColorFromChannelsCommand", "FadeToColorFromChannelsCommand"} ->
            << <<"red_channel", "UnsignedByte">>, <<"green_channel", "UnsignedByte">>,
               <<"blue_channel", "UnsignedByte">>, <<"duration", "Duration">> >>
      [] op = "JumpCommand" -> << <<"address", "Varuint">> >>
      [] op = "SetPyroCommand" -> << <<"mask", "ChannelMask">> >>
      [] op = "SetPyroAllCommand" -> << <<"values", "ChannelValues">> >>

\* to_bytecode() of a literal of the given class
Literal_to_bytecode(cls, value) ==
    CASE cls \in {"Duration", "Varuint"} -> to_varuint(value)
      [] cls = "UnsignedByte" -> <<value>>
      [] cls = "RGBColor" -> RGBColor_to_bytecode(value)
      [] cls = "ChannelMask" -> <<ChannelMask_to_byte(value)>>
      [] cls = "ChannelValues" -> <<ChannelValues_to_byte(value)>>

\* length_in_bytes of a literal of the given class
Literal_length_in_bytes(cls, value) ==
    CASE cls \in {"Duration", "Varuint"} -> Len(to_varuint(value))
      [] cls \in {"UnsignedByte", "ChannelMask", "ChannelValues"} -> 1
      [] cls = "RGBColor" -> 3

\* b"".join(field.to_bytecode() for field in self.iter_field_values())
RECURSIVE JoinFields(_, _)
JoinFields(node, fields) ==
    IF fields = <<>> THEN <<>>
    ELSE Literal_to_bytecode(Head(fields)[2], node[Head(fields)[1]])
         \o JoinFields(node, Tail(fields))

\* Command.to_bytecode
Command_to_bytecode(node) ==
    <<CodeOf(node.op)>> \o JoinFields(node, FieldsOf(node.op))

RECURSIVE SumFieldLengths(_, _)
SumFieldLengths(node, fields) ==
    IF fields = <<>> THEN 0
    ELSE Literal_length_in_bytes(Head(fields)[2], node[Head(fields)[1]])
         + SumFieldLengths(node, Tail(fields))

\* Command.length_in_bytes
Command_length_in_bytes(node) == 1 + SumFieldLengths(node, FieldsOf(node.op))

RECURSIVE Statement_to_bytecode(_)
RECURSIVE StatementSequence_to_bytecode(_)
RECURSIVE Statement_length_in_bytes(_)
RECURSIVE StatementSequence_length_in_bytes(_)

\* LoopBlock.to_bytecode
LoopBlock_to_bytecode(node) ==
    IF node.body = <<>> \/ node.iterations < 0 THEN <<>>
    ELSE LET body == StatementSequence_to_bytecode(node.body)
         IN  IF node.iterations = 1 THEN body
             ELSE <<LOOP_BEGIN>> \o <<node.iterations>> \o body \o <<LOOP_END>>

\* LoopBlock.length_in_bytes
LoopBlock_length_in_bytes(node) ==
    IF node.body = <<>> \/ node.iterations <= 0 THEN 0
    ELSE LET body_length == StatementSequence_length_in_bytes(node.body)
         IN  IF node.iterations = 1 THEN body_length
             ELSE body_length + 2 + 1

\* to_bytecode() of a statement: Comment, LoopBlock or Command
Statement_to_bytecode(node) ==
    CASE node.op = "Comment" -> <<>>
      [] node.op = "LoopBlock" -> LoopBlock_to_bytecode(node)
      [] OTHER -> Command_to_bytecode(node)

\* StatementSequence.to_bytecode
StatementSequence_to_bytecode(stmts) ==
    IF stmts = <<>> THEN <<>>
    ELSE Statement_to_bytecode(Head(stmts))
         \o StatementSequence_to_bytecode(Tail(stmts))

\* length_in_bytes of a statement
Statement_length_in_bytes(node) ==
    CASE node.op = "Comment" -> 0
      [] node.op = "LoopBlock" -> LoopBlock_length_in_bytes(node)
      [] OTHER -> Command_length_in_bytes(node)

\* StatementSequence.length_in_bytes
StatementSequence_length_in_bytes(stmts) ==
    IF stmts = <<>> THEN 0
    ELSE Statement_length_in_bytes(Head(stmts))
         + StatementSequence_length_in_bytes(Tail(stmts))

-----------------------------------------------------------------------------
(* The bytecode decoder.                                                   *)

\* The result of _parse_statement_from_bytecode when it returns None
NoStatement(rest) == [err |-> "none", rest |-> rest]
IsNone(r) == "value" \notin DOMAIN r

\* _parse_node_from_bytecode_by_class for the RGBColor class, which has no
\* from_bytecode of its own: its three UnsignedByte fields are read in turn
RGBColor_from_bytecode(data) ==
    IF Len(data) < 3 THEN Raise("BytecodeParserEOFError", <<>>)
    ELSE Read(RGBColor(data[1], data[2], data[3]), SubSeq(data, 4, Len(data)))

\* _parse_node_from_bytecode_by_class for a literal class
Literal_from_bytecode(cls, data) ==
    CASE cls \in {"Duration", "Varuint"} -> Varuint_from_bytecode(data)
      [] cls = "UnsignedByte" -> UnsignedByte_from_bytecode(data)
      [] cls = "RGBColor" -> RGBColor_from_bytecode(data)
      [] cls = "ChannelMask" -> ChannelMask_from_bytecode(data)
      [] cls = "ChannelValues" -> ChannelValues_from_bytecode(data)

\* "Consume all the fields of the node" and construct it: node holds the
\* fields read so far
RECURSIVE ParseFields(_, _, _)
ParseFields(node, fields, data) ==
    IF fields = <<>> THEN Read(node, data)
    ELSE LET r == Literal_from_bytecode(Head(fields)[2], data)
         IN  IF r.err # "none" THEN r
             ELSE ParseFields(node @@ (Head(fields)[1] :> r.value),
                              Tail(fields), r.rest)

\* _parse_node_from_bytecode_by_class for a command class: the code marker
\* is consumed, then the fields
Command_from_bytecode(op, data) ==
    IF data = <<>> THEN Raise("BytecodeParserEOFError", data)
    ELSE IF Head(data) # CodeOf(op) THEN Raise("BytecodeParserError", data)
    ELSE ParseFields([op |-> op], FieldsOf(op), Tail(data))

\* The loop over Command.__subclasses__() that looks for the class of a code
ClassOfCode(code) ==
    IF \E i \in 1..Len(CommandClasses) : CodeOf(CommandClasses[i]) = code
    THEN CommandClasses[CHOOSE i \in 1..Len(CommandClasses) :
                            CodeOf(CommandClasses[i]) = code]
    ELSE IF code = LOOP_BEGIN THEN "LoopBlock"
    ELSE IF code = LOOP_END THEN "LOOP_END"
    ELSE "None"

RECURSIVE parse_statement_from_bytecode(_)
RECURSIVE StatementSequence_loop(_, _)
RECURSIVE LoopBlock_from_bytecode(_)

\* _parse_statement_from_bytecode
parse_statement_from_bytecode(data) ==
    IF data = <<>> THEN NoStatement(data)
    ELSE LET subcls == ClassOfCode(Head(data))
         IN  CASE subcls = "LOOP_END" -> NoStatement(data)
               [] subcls = "None" -> Raise("BytecodeParserError", data)
               [] subcls = "LoopBlock" -> LoopBlock_from_bytecode(data)
               [] OTHER -> Command_from_bytecode(subcls, data)

\* The loop of StatementSequence.from_bytecode: result holds the statements
\* appended so far
StatementSequence_loop(result, data) ==
    LET r == parse_statement_from_bytecode(data)
    IN  IF r.err # "none" THEN r
        ELSE IF IsNone(r) THEN Read(result, r.rest)
        ELSE StatementSequence_loop(Append(result, r.value), r.rest)

\* StatementSequence.from_bytecode
StatementSequence_from_bytecode(data) == StatementSequence_loop(<<>>, data)

\* LoopBlock.from_bytecode mutated: the LOOP_END marker is left in the stream
LoopBlock_from_bytecode_keeps_end(data) ==
    IF data = <<>> THEN Raise("BytecodeParserEOFError", data)
    ELSE IF Head(data) # LOOP_BEGIN THEN Raise("ValueError", data)
    ELSE LET iterations == UnsignedByte_from_bytecode(Tail(data))
         IN  IF iterations.err # "none" THEN iterations
             ELSE LET body == StatementSequence_from_bytecode(iterations.rest)
                  IN  IF body.err # "none" THEN body
                      ELSE IF body.rest = <<>>
                           THEN Raise("BytecodeParserEOFError", <<>>)
                      ELSE Read(LoopBlock(iterations.value, body.value), body.rest)

\* LoopBlock.from_bytecode
LoopBlock_from_bytecode(data) ==
    IF data = <<>> THEN Raise("BytecodeParserEOFError", data)
    ELSE IF Head(data) # LOOP_BEGIN THEN Raise("ValueError", data)
    ELSE LET iterations == UnsignedByte_from_bytecode(Tail(data))
         IN  IF iterations.err # "none" THEN iterations
             ELSE LET body == StatementSequence_from_bytecode(iterations.rest)
                  IN  IF body.err # "none" THEN body
                      ELSE IF body.rest = <<>>
                           THEN Raise("BytecodeParserEOFError", <<>>)
                      ELSE IF Head(body.rest) # LOOP_END
                           THEN Raise("ValueError", body.rest)
                      ELSE Read(LoopBlock(iterations.value, body.value),
                                Tail(body.rest))

-----------------------------------------------------------------------------
(* The trees the specifications start from.                                *)

RECURSIVE StatementsOfSize(_, _, _)
RECURSIVE SequencesOfSize(_, _, _)

\* The statements with exactly k nodes: a leaf or a loop block around an
\* empty body has one node
StatementsOfSize(leaves, iterations, k) ==
    IF k = 1 THEN leaves \cup {LoopBlock(n, <<>>) : n \in iterations}
    ELSE {LoopBlock(n, body) : n \in iterations,
                               body \in SequencesOfSize(leaves, iterations, k - 1)}

\* The statement sequences with exactly n nodes
SequencesOfSize(leaves, iterations, n) ==
    IF n = 0 THEN {<<>>}
    ELSE UNION {{<<s>> \o rest : s \in StatementsOfSize(leaves, iterations, k),
                                 rest \in SequencesOfSize(leaves, iterations, n - k)}
                : k \in 1..n}

Trees(leaves, iterations, max) ==
    UNION {SequencesOfSize(leaves, iterations, n) : n \in 0..max}

Orange == RGBColor(255, 127, 0)

CodecLeaves ==
    {EndCommand, NopCommand, SleepCommand(25), SetColorCommand(Orange, 200),
     Comment("c")}

CodecIterations == {0, 1, 2, 255}

\* Values at which an encoding changes its length, and the largest ones
DurationSamples == {0, 25, 127, 128, 250, 16383, 16384, VaruintLimit - 1}
ByteSamples == {0, 7, 255}
ChannelSamples == {{}, {0}, {6}, {0, 3, 6}, 0..6}

\* One command of every class, with the sample values in its fields
SingleCommands ==
    {EndCommand, NopCommand, ResetTimerCommand}
    \cup {SleepCommand(d) : d \in DurationSamples}
    \cup {WaitUntilCommand(d) : d \in DurationSamples}
    \cup {SetColorCommand(c, d) : c \in {Orange, RGBColor(0, 0, 255)},
                                  d \in DurationSamples}
    \cup {FadeToColorCommand(c, d) : c \in {Orange, RGBColor(0, 0, 255)},
                                     d \in DurationSamples}
    \cup {SetGrayCommand(v, d) : v \in ByteSamples, d \in DurationSamples}
    \cup {FadeToGrayCommand(v, d) : v \in ByteSamples, d \in DurationSamples}
    \cup {SetBlackCommand(d) : d \in DurationSamples}
    \cup {SetWhiteCommand(d) : d \in DurationSamples}
    \cup {FadeToBlackCommand(d) : d \in DurationSamples}
    \cup {FadeToWhiteCommand(d) : d \in DurationSamples}
    \cup {SetColorFromChannelsCommand(1, 2, v, d) : v \in ByteSamples,
                                                    d \in DurationSamples}
    \cup {FadeToColorFromChannelsCommand(v, 2, 1, d) : v \in ByteSamples,
                                                       d \in DurationSamples}
    \cup {JumpCommand(d) : d \in DurationSamples}
    \cup {SetPyroCommand(e, ch) : e \in BOOLEAN, ch \in ChannelSamples}
    \cup {SetPyroAllCommand(ch) : ch \in ChannelSamples}

CodecTrees ==
    Trees(CodecLeaves, CodecIterations, MaxNodes)
    \cup {<<c>> : c \in SingleCommands}

VaruintValues ==
    (0..MaxSmallValue)
    \cup {16383, 16384, 2097151, 2097152, VaruintLimit - 1}

TrailingBytes == {<<>>, <<0>>, <<128, 1>>, <<255>>}

-----------------------------------------------------------------------------
(* The codec: a tree is encoded, and the bytes are decoded again.          *)

NoResult == Raise("not called", <<>>)

VaruintIdle ==
    /\ number = 0
    /\ trailing = <<>>
    /\ stream = <<>>
    /\ varuint = NoResult

CodecIdle ==
    /\ ast = <<>>
    /\ bytecode = <<>>
    /\ parsed = NoResult
    /\ source = NoResult

\* No optimiser has run and nothing was executed
OptIdle ==
    /\ level = 0
    /\ optimised = NoResult
    /\ merged = NoResult
    /\ states = NoResult
    /\ opt_states = NoResult
    /\ shortened = NoResult
    /\ looped = NoResult
    /\ again = <<>>

\* No player was constructed
PlayerIdle ==
    /\ events = <<>>
    /\ last_event_time = 0
    /\ event_iter = NoResult
    /\ queries = <<>>
    /\ answers = <<>>

\* No plan was built
PlanIdle ==
    /\ steps = <<>>
    /\ output_steps = <<>>
    /\ callbacks = <<>>
    /\ should_run = <<>>
    /\ force = FALSE
    /\ step_index = 0
    /\ num_steps = 0
    /\ considered = <<>>
    /\ ran = <<>>
    /\ step_attrs = <<>>
    /\ executions = 0
    /\ invoked = <<>>

\* No executor is being followed
ExecIdle ==
    /\ executor = NoResult
    /\ previous = NoResult
    /\ position = 0
    /\ unrolled = <<>>
    /\ fps = 0
    /\ frames = <<>>

InitCodec ==
    /\ pc = "tree"
    /\ ast \in CodecTrees
    /\ bytecode = <<>>
    /\ parsed = NoResult
    /\ source = NoResult
    /\ VaruintIdle
    /\ OptIdle
    /\ PlayerIdle
    /\ PlanIdle
    /\ ExecIdle

\* ast.to_bytecode()
ToBytecode ==
    /\ pc = "tree"
    /\ bytecode' = StatementSequence_to_bytecode(ast)
    /\ pc' = "encoded"
    /\ UNCHANGED <<execVars, ast, parsed, source, varuintVars, optVars, playerVars, planVars>>

\* BytecodeParser.parse(bytecode)
Parse ==
    /\ pc = "encoded"
    /\ parsed' = StatementSequence_from_bytecode(bytecode)
    /\ pc' = "decoded"
    /\ UNCHANGED <<execVars, ast, bytecode, source, varuintVars, optVars, playerVars, planVars>>

NextCodec == ToBytecode \/ Parse

SpecCodec == InitCodec /\ [][NextCodec]_vars

-----------------------------------------------------------------------------
(* Varuints: a value is encoded, and the stream is decoded again.          *)

InitVaruint ==
    /\ pc = "value"
    /\ number \in VaruintValues
    /\ trailing \in TrailingBytes
    /\ stream = <<>>
    /\ varuint = NoResult
    /\ CodecIdle
    /\ OptIdle
    /\ PlayerIdle
    /\ PlanIdle
    /\ ExecIdle

\* to_varuint(number), followed in the stream by other bytes
EncodeVaruint ==
    /\ pc = "value"
    /\ stream' = to_varuint(number) \o trailing
    /\ pc' = "encoded"
    /\ UNCHANGED <<execVars, codecVars, number, trailing, varuint, optVars, playerVars, planVars>>

\* Varuint.from_bytecode(stream)
DecodeVaruint ==
    /\ pc = "encoded"
    /\ varuint' = Varuint_from_bytecode(stream)
    /\ pc' = "decoded"
    /\ UNCHANGED <<execVars, codecVars, number, trailing, stream, optVars, playerVars, planVars>>

NextVaruint == EncodeVaruint \/ DecodeVaruint

SpecVaruint == InitVaruint /\ [][NextVaruint]_vars

-----------------------------------------------------------------------------
(* Properties of the codec.                                                *)

IsCommand(node) == node.op \notin {"Comment", "LoopBlock"}

\* C1: the length a tree reports (length_in_bytes) is the number of bytes
\* its to_bytecode() produces, for every tree of commands, comments and
\* loop blocks.
C1_LengthIsBytecodeLength ==
    pc = "encoded" => StatementSequence_length_in_bytes(ast) = Len(bytecode)

\* C2: a loop block encodes as LOOP_BEGIN, iterations, body, LOOP_END when
\* it has two or more iterations, as its body alone when it has one, and
\* as no bytes at all when it has none or when its body is empty.
C2_LoopBlockEncoding ==
    pc = "encoded" /\ Len(ast) = 1 /\ ast[1].op = "LoopBlock" =>
        LET n == ast[1].iterations
            body == StatementSequence_to_bytecode(ast[1].body)
        IN  bytecode = IF n = 0 \/ ast[1].body = <<>> THEN <<>>
                       ELSE IF n = 1 THEN body
                       ELSE <<LOOP_BEGIN, n>> \o body \o <<LOOP_END>>

RECURSIVE KeepsEveryNode(_)
KeepsEveryNode(stmts) ==
    \A i \in 1..Len(stmts) :
        /\ stmts[i].op # "Comment"
        /\ stmts[i].op = "LoopBlock" =>
              /\ stmts[i].iterations >= 2
              /\ stmts[i].body # <<>>
              /\ KeepsEveryNode(stmts[i].body)

FixedBytes(node) ==
    CASE node.op \in {"SetColorCommand", "FadeToColorCommand"} ->
            <<node.color.red, node.color.green, node.color.blue>>
      [] node.op \in {"SetGrayCommand", "FadeToGrayCommand"} -> <<node.value>>
      [] node.op \in {"SetColorFromChannelsCommand",
                      "FadeToColorFromChannelsCommand"} ->
            <<node.red_channel, node.green_channel, node.blue_channel>>
      [] node.op = "SetPyroCommand" ->
            <<(IF node.mask.enable THEN 128 ELSE 0)
              + (IF 0 \in node.mask.channels THEN 1 ELSE 0)
              + (IF 1 \in node.mask.channels THEN 2 ELSE 0)
              + (IF 2 \in node.mask.channels THEN 4 ELSE 0)
              + (IF 3 \in node.mask.channels THEN 8 ELSE 0)
              + (IF 4 \in node.mask.channels THEN 16 ELSE 0)
              + (IF 5 \in node.mask.channels THEN 32 ELSE 0)
              + (IF 6 \in node.mask.channels THEN 64 ELSE 0)>>
      [] node.op = "SetPyroAllCommand" ->
            <<(IF 0 \in node.values.channels THEN 1 ELSE 0)
              + (IF 1 \in node.values.channels THEN 2 ELSE 0)
              + (IF 2 \in node.values.channels THEN 4 ELSE 0)
              + (IF 3 \in node.values.channels THEN 8 ELSE 0)
              + (IF 4 \in node.values.channels THEN 16 ELSE 0)
              + (IF 5 \in node.values.channels THEN 32 ELSE 0)
              + (IF 6 \in node.values.channels THEN 64 ELSE 0)>>
      [] OTHER -> <<>>

\* The varuint field of a command, which is its last field: <<k>>, or <<>>
\* when the command has none
VaruintField(node) ==
    CASE "duration" \in DOMAIN node -> <<node.duration>>
      [] "timestamp" \in DOMAIN node -> <<node.timestamp>>
      [] "address" \in DOMAIN node -> <<node.address>>
      [] OTHER -> <<>>

RECURSIVE Leb128Value(_)
Leb128Value(bytes) ==
    IF bytes = <<>> THEN 0
    ELSE (Head(bytes) % 128) + 128 * Leb128Value(Tail(bytes))

\* bytes is the minimal LEB128 encoding of k
IsLeb128(bytes, k) ==
    /\ Len(bytes) >= 1
    /\ \A i \in 1..(Len(bytes) - 1) : bytes[i] >= 128
    /\ bytes[Len(bytes)] < 128
    /\ Len(bytes) > 1 => bytes[Len(bytes)] # 0
    /\ Leb128Value(bytes) = k

\* C8: a command encodes as its code, then its fields in the order of their
\* declaration, a varuint of k being the minimal LEB128 encoding of k; so
\* sleep(25) is 02 19, wait_until(250) is 03 FA 01, and 128 is 80 01.
C8_CommandEncoding ==
    pc = "encoded" /\ Len(ast) = 1 /\ IsCommand(ast[1]) =>
        LET node == ast[1]
            fixed == FixedBytes(node)
            rest == SubSeq(bytecode, 2 + Len(fixed), Len(bytecode))
        IN  /\ Len(bytecode) >= 1 + Len(fixed)
            /\ bytecode[1] = CodeOf(node.op)
            /\ SubSeq(bytecode, 2, 1 + Len(fixed)) = fixed
            /\ IF VaruintField(node) = <<>> THEN rest = <<>>
               ELSE IsLeb128(rest, VaruintField(node)[1])
            /\ node = SleepCommand(25) => bytecode = <<2, 25>>
            /\ node = WaitUntilCommand(250) => bytecode = <<3, 250, 1>>
            /\ node = JumpCommand(128) => bytecode = <<18, 128, 1>>
            /\ node = SleepCommand(0) => bytecode = <<2, 0>>

\* A command with a color and a four-byte duration has been encoded
C8_Witness ==
    /\ pc = "encoded"
    /\ ast = <<SetColorCommand(Orange, VaruintLimit - 1)>>
    /\ bytecode = <<4, 255, 127, 0, 255, 255, 255, 127>>

-----------------------------------------------------------------------------
(* Properties of the varuint codec.                                        *)

\* C7: decoding the varuint encoding of v gives v again and leaves in the
\* stream exactly the bytes that followed the encoding.
C7_VaruintRoundTrip ==
    pc = "decoded" /\ stream # <<>> => varuint = Read(number, trailing)

\* The largest varuint, followed by other bytes, has been decoded
C7_Witness ==
    /\ pc = "decoded"
    /\ stream # <<>>
    /\ number = VaruintLimit - 1
    /\ trailing = <<128, 1>>

-----------------------------------------------------------------------------
(* The AST optimisers.  An optimiser either returns the statements it      *)
(* leaves in the tree together with its "changed" flag, or raises.         *)

Returned(value, changed) == [err |-> "none", value |-> value, changed |-> changed]
Raised(err) == [err |-> err]

\* RGBColor.is_white, RGBColor.is_black, RGBColor.is_gray, RGBColor.equals
is_white(color) == color.red = 255 /\ color.green = 255 /\ color.blue = 255
is_black(color) == color.red = 0 /\ color.green = 0 /\ color.blue = 0
is_gray(color) == color.red = color.green /\ color.green = color.blue
RGBColor_equals(color, other) ==
    color.red = other.red /\ color.green = other.green /\ color.blue = other.blue

\* "node.value == 255" and "node.value == 0" in the shortener: node.value is
\* an UnsignedByte node, the class defines no __eq__, and a node is never
\* identical to an int
UnsignedByte_eq_int(value, n) == FALSE

\* ColorCommandShortener.Transformer
visit_SetColorCommand(node) ==
    IF is_white(node.color) THEN SetWhiteCommand(node.duration)
    ELSE IF is_black(node.color) THEN SetBlackCommand(node.duration)
    ELSE IF is_gray(node.color) THEN SetGrayCommand(node.color.red, node.duration)
    ELSE node

visit_SetGrayCommand(node) ==
    IF UnsignedByte_eq_int(node.value, 255) THEN SetWhiteCommand(node.duration)
    ELSE IF UnsignedByte_eq_int(node.value, 0) THEN SetBlackCommand(node.duration)
    ELSE node

visit_FadeToColorCommand(node) ==
    IF is_white(node.color) THEN FadeToWhiteCommand(node.duration)
    ELSE IF is_black(node.color) THEN FadeToBlackCommand(node.duration)
    ELSE IF is_gray(node.color) THEN FadeToGrayCommand(node.color.red, node.duration)
    ELSE node

visit_FadeToGrayCommand(node) ==
    IF UnsignedByte_eq_int(node.value, 255) THEN FadeToWhiteCommand(node.duration)
    ELSE IF UnsignedByte_eq_int(node.value, 0) THEN FadeToBlackCommand(node.duration)
    ELSE node

\* NodeTransformer.generic_visit over a statement sequence: every statement
\* is replaced by what its visitor returns, loop bodies are visited in turn
RECURSIVE ColorCommandShortener_visit(_)
ColorCommandShortener_visit(statements) ==
    [i \in 1..Len(statements) |->
        LET node == statements[i]
        IN  CASE node.op = "SetColorCommand" -> visit_SetColorCommand(node)
              [] node.op = "SetGrayCommand" -> visit_SetGrayCommand(node)
              [] node.op = "FadeToColorCommand" -> visit_FadeToColorCommand(node)
              [] node.op = "FadeToGrayCommand" -> visit_FadeToGrayCommand(node)
              [] node.op = "LoopBlock" ->
                    LoopBlock(node.iterations, ColorCommandShortener_visit(node.body))
              [] OTHER -> node]

\* ColorCommandShortener.optimise_ast: "changed" is set whenever a visitor
\* returned another node than the one it was given
ColorCommandShortener_optimise_ast(statements) ==
    LET result == ColorCommandShortener_visit(statements)
    IN  Returned(result, result # statements)

\* The scanning loop the three _handle_* methods of CommandMerger share:
\* the number of statements from position i on that can be merged, and the
\* sum of their durations.  Sleeps always merge; with with_colors, set_color
\* and fade_to_color commands of exactly the given color merge as well.
RECURSIVE MergeRun(_, _, _, _)
MergeRun(body, i, color, with_colors) ==
    IF i > Len(body) THEN [length |-> 0, duration |-> 0]
    ELSE LET statement == body[i]
             merges ==
                \/ statement.op = "SleepCommand"
                \/ /\ with_colors
                   /\ statement.op \in {"SetColorCommand", "FadeToColorCommand"}
                   /\ RGBColor_equals(statement.color, color)
         IN  IF ~merges THEN [length |-> 0, duration |-> 0]
             ELSE LET rest == MergeRun(body, i + 1, color, with_colors)
                  IN  [length |-> rest.length + 1,
                       duration |-> rest.duration + statement.duration]

\* Duration(value=...): Varuint._set_value refuses 2**28 and more
Duration_is_valid(value) == value >= 0 /\ value < VaruintLimit

NoReplacement == [replace |-> FALSE, err |-> "none"]
Replacement(length, duration, replacement) ==
    IF Duration_is_valid(duration)
    THEN [replace |-> TRUE, err |-> "none", length |-> length,
          replacement |-> replacement]
    ELSE [replace |-> FALSE, err |-> "ValueError"]

\* _handle_set_color_command mutated: the merged command keeps the duration
\* of the first command
handle_set_color_command_first_duration(body, index) ==
    LET color == body[index].color
        run == MergeRun(body, index, color, TRUE)
    IN  IF run.length > 1
        THEN Replacement(run.length, run.duration,
                         <<SetColorCommand(color, body[index].duration)>>)
        ELSE NoReplacement

\* CommandMerger.Transformer._handle_set_color_command
handle_set_color_command(body, index) ==
    LET color == body[index].color
        run == MergeRun(body, index, color, TRUE)
    IN  IF run.length > 1
        THEN Replacement(run.length, run.duration,
                         <<SetColorCommand(color, run.duration)>>)
        ELSE NoReplacement

\* CommandMerger.Transformer._handle_fade_to_color_command
handle_fade_to_color_command(body, index) ==
    LET color == body[index].color
        run == MergeRun(body, index + 1, color, TRUE)
    IN  IF run.length + 1 > 1
        THEN Replacement(run.length + 1, run.duration,
                         <<body[index], SleepCommand(run.duration)>>)
        ELSE NoReplacement

\* CommandMerger.Transformer._handle_sleep_command
handle_sleep_command(body, index) ==
    LET run == MergeRun(body, index, Orange, FALSE)
    IN  IF run.length > 1
        THEN Replacement(run.length, run.duration, <<SleepCommand(run.duration)>>)
        ELSE NoReplacement

\* CommandMerger.Transformer.visit_StatementSequence: the while loop, from
\* position index on.  Only the statements of the root sequence are looked
\* at; the bodies of loop blocks are never visited.
RECURSIVE CommandMerger_visit(_, _)
CommandMerger_visit(body, index) ==
    IF index > Len(body) THEN Returned(body, FALSE)
    ELSE LET statement == body[index]
             handled ==
                CASE statement.op = "SetColorCommand" ->
                        handle_set_color_command(body, index)
                  [] statement.op = "FadeToColorCommand" ->
                        handle_fade_to_color_command(body, index)
                  [] statement.op = "SleepCommand" ->
                        handle_sleep_command(body, index)
                  [] OTHER -> NoReplacement
         IN  IF handled.err # "none" THEN Raised(handled.err)
             ELSE IF handled.replace
             THEN CommandMerger_visit(
                      SubSeq(body, 1, index - 1) \o handled.replacement
                          \o SubSeq(body, index + handled.length, Len(body)),
                      index + Len(handled.replacement))
             ELSE CommandMerger_visit(body, index + 1)

\* CommandMerger.optimise_ast: the transformer never sets "changed"
CommandMerger_optimise_ast(statements) == CommandMerger_visit(statements, 1)

\* Statement.is_equivalent_to: the same class, and equal fields for the
\* classes that override _is_equivalent_to_inner, equal bytecode otherwise
is_equivalent_to(first, second) ==
    /\ first.op = second.op
    /\ IF first.op \in {"SetColorCommand", "SetGrayCommand", "SetBlackCommand",
                        "SetWhiteCommand", "FadeToColorCommand",
                        "FadeToGrayCommand", "FadeToBlackCommand",
                        "FadeToWhiteCommand", "SetPyroCommand",
                        "SetPyroAllCommand"}
       THEN first = second
       ELSE Statement_to_bytecode(first) = Statement_to_bytecode(second)

\* are_statements_equivalent: every statement has is_equivalent_to
are_statements_equivalent(first, second) == is_equivalent_to(first, second)

\* LoopDetector.Transformer.max_loop_len
max_loop_len == 8

Min(a, b) == IF a < b THEN a ELSE b
Max(a, b) == IF a > b THEN a ELSE b

\* The while loop of _identify_loop_iteration_count: the final "second",
\* which is the first position whose statement is not equivalent to the one
\* loop_body_length before it, or the position after the last.  Stride
\* rounds of the loop are taken at once where that many statements match.
Stride == 16

RECURSIVE MatchingEnd(_, _, _)
MatchingEnd(statements, first, second) ==
    IF second + Stride - 1 <= Len(statements)
       /\ \A k \in 0..(Stride - 1) :
             is_equivalent_to(statements[first + k], statements[second + k])
    THEN MatchingEnd(statements, first + Stride, second + Stride)
    ELSE IF second <= Len(statements)
            /\ is_equivalent_to(statements[first], statements[second])
    THEN MatchingEnd(statements, first + 1, second + 1)
    ELSE second

\* As _identify_loop_iteration_count, but the count is not kept to 255
identify_loop_iteration_count_uncapped(statements, start_index, loop_body_length) ==
    (MatchingEnd(statements, start_index, start_index + loop_body_length)
        - start_index) \div loop_body_length

\* LoopDetector.Transformer._identify_loop_iteration_count
identify_loop_iteration_count(statements, start_index, loop_body_length) ==
    Min((MatchingEnd(statements, start_index, start_index + loop_body_length)
            - start_index) \div loop_body_length,
        255)

\* The ends of the potential loops that start at index (positions count
\* from 1 here, so "end" is the position of the statement equivalent to the
\* first one, and the body is body[index .. end - 1])
PotentialLoops(body, index) ==
    {end \in (index + 1)..Min(Len(body), index + max_loop_len - 1) :
        /\ are_statements_equivalent(body[index], body[end])
        /\ identify_loop_iteration_count(body, index, end - index) > 1}

BlockOf(body, index, end) ==
    LoopBlock(identify_loop_iteration_count(body, index, end - index),
              SubSeq(body, index, end - 1))

\* length_in_bytes of the block of a potential loop
BlockLength(body, index, end) ==
    LoopBlock_length_in_bytes(BlockOf(body, index, end))

\* min(blocks, key=attrgetter("length_in_bytes")): the first of the blocks
\* of the smallest length, the blocks being listed by increasing end
BestEnd(body, index) ==
    CHOOSE end \in PotentialLoops(body, index) :
        \A other \in PotentialLoops(body, index) :
            \/ BlockLength(body, index, end) < BlockLength(body, index, other)
            \/ /\ BlockLength(body, index, end) = BlockLength(body, index, other)
               /\ end <= other

\* LoopDetector.Transformer.visit_StatementSequence: the while loop, from
\* position index on.  Only the root sequence is looked at.
RECURSIVE LoopDetector_visit(_, _)
LoopDetector_visit(body, index) ==
    IF index > Len(body) THEN body
    ELSE IF PotentialLoops(body, index) # {}
    THEN LET best_block == BlockOf(body, index, BestEnd(body, index))
             end == index + best_block.iterations * Len(best_block.body)
         IN  LoopDetector_visit(
                 SubSeq(body, 1, index - 1) \o <<best_block>>
                     \o SubSeq(body, end, Len(body)),
                 index + 1)
    ELSE LoopDetector_visit(body, index + 1)

\* LoopDetector.optimise_ast: the transformer never sets "changed"
LoopDetector_optimise_ast(statements) ==
    Returned(LoopDetector_visit(statements, 1), FALSE)

\* create_optimiser_for_level: the child optimisers of the composite
\* optimiser, none for the null optimiser of level 0
create_optimiser_for_level(lvl) ==
    IF lvl <= 0 THEN <<>>
    ELSE <<"CommandMerger", "ColorCommandShortener">>
         \o (IF lvl >= 2 THEN <<"LoopDetector">> ELSE <<>>)

\* ASTOptimiser.optimise of one child optimiser
optimise(optimiser, statements) ==
    CASE optimiser = "CommandMerger" -> CommandMerger_optimise_ast(statements)
      [] optimiser = "ColorCommandShortener" ->
            ColorCommandShortener_optimise_ast(statements)
      [] optimiser = "LoopDetector" -> LoopDetector_optimise_ast(statements)

\* The for loop of CompositeASTOptimiser.optimise_ast
RECURSIVE RunOptimisers(_, _, _)
RunOptimisers(optimisers, statements, any_modified) ==
    IF optimisers = <<>> THEN Returned(statements, any_modified)
    ELSE LET result == optimise(Head(optimisers), statements)
         IN  IF result.err # "none" THEN result
             ELSE RunOptimisers(Tail(optimisers), result.value,
                                result.changed \/ any_modified)

\* The while loop of CompositeASTOptimiser.optimise_ast
RECURSIVE CompositeASTOptimiser_loop(_, _, _)
CompositeASTOptimiser_loop(optimisers, statements, modified_at_least_once) ==
    LET round == RunOptimisers(optimisers, statements, FALSE)
    IN  IF round.err # "none" THEN round
        ELSE IF round.changed
        THEN CompositeASTOptimiser_loop(optimisers, round.value, TRUE)
        ELSE Returned(round.value, modified_at_least_once)

\* create_optimiser_for_level(lvl).optimise(ast): NullASTOptimiser for
\* level 0, CompositeASTOptimiser above it
optimise_ast(lvl, statements) ==
    IF create_optimiser_for_level(lvl) = <<>> THEN Returned(statements, FALSE)
    ELSE CompositeASTOptimiser_loop(create_optimiser_for_level(lvl), statements,
                                    FALSE)

-----------------------------------------------------------------------------
(* The executor.  Timestamps are kept in frames: the code keeps seconds    *)
(* and advances by Duration.value / FPS.                                   *)

\* Duration.FPS
FPS == 50

Color(r, g, b) == [red |-> r, green |-> g, blue |-> b]
Color_gray(value) == Color(value, value, value)
Color_BLACK == Color_gray(0)
Color_white == Color_gray(255)

ExecutorState(timestamp, color, is_fade) ==
    [timestamp |-> timestamp, color |-> color, is_fade |-> is_fade]

\* Executor.__init__, with the generator of Executor.execute not yet run.
\* status is "running" while statements are executed, "stopped" after
\* StopExecution, "error" after RuntimeError, and "endless" when a loop of
\* zero iterations was cut off after MaxEndlessIterations rounds.
Executor_init ==
    [state |-> ExecutorState(0, Color_BLACK, FALSE), yielded |-> <<>>,
     status |-> "running"]

\* "yield self.state": Executor.execute hands out a copy
yield(ex) == [ex EXCEPT !.yielded = Append(@, ex.state)]

\* ExecutorState.advance_time_by(duration) for a Duration node
advance_time_by(ex, duration) ==
    [ex EXCEPT !.state.timestamp = @ + duration]

\* _execute_SetColorCommand, _execute_SetGrayCommand, _execute_SetBlackCommand
\* and _execute_SetWhiteCommand
set_to(ex, color, duration) ==
    advance_time_by(
        yield([ex EXCEPT !.state.color = color, !.state.is_fade = FALSE]),
        duration)

\* As fade_to, but the start of the fade is yielded whatever is_fade says
fade_to_always_marks(ex, color, duration) ==
    yield([advance_time_by([yield(ex) EXCEPT !.state.is_fade = TRUE],
                           duration) EXCEPT !.state.color = color])

\* Executor._fade_to
fade_to(ex, color, duration) ==
    LET started == IF ~ex.state.is_fade
                   THEN [yield(ex) EXCEPT !.state.is_fade = TRUE]
                   ELSE ex
    IN  yield([advance_time_by(started, duration) EXCEPT !.state.color = color])

\* As execute_SleepCommand, but the state is yielded before the clock moves
execute_SleepCommand_yield_first(ex, node) ==
    advance_time_by(yield([ex EXCEPT !.state.is_fade = FALSE]), node.duration)

\* Executor._execute_SleepCommand
execute_SleepCommand(ex, node) ==
    yield([advance_time_by(ex, node.duration) EXCEPT !.state.is_fade = FALSE])

\* As execute_WaitUntilCommand, but the clock is set without max()
execute_WaitUntilCommand_sets_clock(ex, node) ==
    yield([ex EXCEPT !.state.timestamp = node.timestamp * FPS,
                     !.state.is_fade = FALSE])

\* Executor._execute_WaitUntilCommand: the frame count of the node is taken
\* for a number of seconds
execute_WaitUntilCommand(ex, node) ==
    yield([ex EXCEPT !.state.timestamp = Max(@, node.timestamp * FPS),
                     !.state.is_fade = FALSE])

RECURSIVE execute(_, _)
RECURSIVE execute_StatementSequence(_, _)
RECURSIVE execute_iterations(_, _, _)

\* Executor._execute_StatementSequence
execute_StatementSequence(ex, statements) ==
    IF statements = <<>> \/ ex.status # "running" THEN ex
    ELSE execute_StatementSequence(execute(ex, Head(statements)),
                                   Tail(statements))

\* As execute_iterations, but the last round is left out
RECURSIVE execute_iterations_one_less(_, _, _)
execute_iterations_one_less(ex, body, remaining) ==
    IF remaining <= 1 \/ ex.status # "running" THEN ex
    ELSE execute_iterations_one_less(execute_StatementSequence(ex, body),
                                     body, remaining - 1)

\* The for loop of Executor._execute_LoopBlock
execute_iterations(ex, body, remaining) ==
    IF remaining = 0 \/ ex.status # "running" THEN ex
    ELSE execute_iterations(execute_StatementSequence(ex, body), body,
                            remaining - 1)

\* Executor._execute_LoopBlock
execute_LoopBlock(ex, node) ==
    IF node.iterations > 0
    THEN execute_iterations(ex, node.body, node.iterations)
    ELSE LET cut == execute_iterations(ex, node.body, MaxEndlessIterations)
         IN  IF cut.status = "running" THEN [cut EXCEPT !.status = "endless"]
             ELSE cut

\* Executor._execute: the method named after the class of the node
execute(ex, node) ==
    CASE node.op = "EndCommand" -> [ex EXCEPT !.status = "stopped"]
      [] node.op = "FadeToBlackCommand" -> fade_to(ex, Color_BLACK, node.duration)
      [] node.op = "FadeToColorCommand" ->
            fade_to(ex, Color(node.color.red, node.color.green, node.color.blue),
                    node.duration)
      [] node.op = "FadeToGrayCommand" ->
            fade_to(ex, Color_gray(node.value), node.duration)
      [] node.op = "FadeToWhiteCommand" -> fade_to(ex, Color_white, node.duration)
      [] node.op = "LoopBlock" -> execute_LoopBlock(ex, node)
      [] node.op = "SetBlackCommand" -> set_to(ex, Color_BLACK, node.duration)
      [] node.op = "SetColorCommand" ->
            set_to(ex, Color(node.color.red, node.color.green, node.color.blue),
                   node.duration)
      [] node.op = "SetGrayCommand" ->
            set_to(ex, Color_gray(node.value), node.duration)
      [] node.op = "SetWhiteCommand" -> set_to(ex, Color_white, node.duration)
      [] node.op = "SleepCommand" -> execute_SleepCommand(ex, node)
      [] node.op = "WaitUntilCommand" -> execute_WaitUntilCommand(ex, node)
      [] node.op \in {"NopCommand", "SetPyroCommand", "SetPyroAllCommand"} -> ex
      [] OTHER -> [ex EXCEPT !.status = "error"]

\* Executor().execute(ast) run to its end: the states it yields, the state
\* it is left in, and how it ended ("running": the statements ran out)
Executor_execute(statements) == execute_StatementSequence(Executor_init, statements)

\* round() of the non-negative fraction p / q: to the nearest integer, a
\* tie going to the even one
round(p, q) ==
    LET floor == p \div q
        rest == p % q
    IN  IF 2 * rest < q THEN floor
        ELSE IF 2 * rest > q THEN floor + 1
        ELSE IF floor % 2 = 0 THEN floor ELSE floor + 1

\* Color.mix_with(other, ratio, integral=True) for the ratio num / den
mix_with(color, other, num, den) ==
    IF num <= 0 THEN color
    ELSE IF num >= den THEN other
    ELSE Color(round(color.red * (den - num) + other.red * num, den),
               round(color.green * (den - num) + other.green * num, den),
               round(color.blue * (den - num) + other.blue * num, den))

-----------------------------------------------------------------------------
(* The optimisers at work: a tree is optimised at some level and both      *)
(* trees are executed, or the tree is handed to the CommandMerger alone.   *)

HalfLimit == VaruintLimit \div 2
Black == RGBColor(0, 0, 0)
Gray == RGBColor(7, 7, 7)
White == RGBColor(255, 255, 255)

OptLeaves ==
    {SleepCommand(1), SleepCommand(HalfLimit), SetColorCommand(Orange, 1),
     SetColorCommand(Black, 2), FadeToColorCommand(Orange, 2),
     FadeToColorCommand(Gray, 2), NopCommand, EndCommand, WaitUntilCommand(1),
     ResetTimerCommand}

OptIterations == {1, 2}

\* Repetitions of two statements, which the loop detector folds
RepeatedPairs ==
    UNION {{<<a, b, a, b>>, <<a, b, a, b, a, b>>, <<a, a, b, a, a, b>>}
           : a \in OptLeaves, b \in OptLeaves}

OptTrees == Trees(OptLeaves, OptIterations, MaxOptNodes) \cup RepeatedPairs

OptLevels == {0, 1, 2}

\* The commands the shortener looks at, with colors and values it replaces
\* and others
ColorCommands ==
    {SetColorCommand(c, 3) : c \in {Black, White, Gray, Orange}}
    \cup {FadeToColorCommand(c, 3) : c \in {Black, White, Gray, Orange}}
    \cup {SetGrayCommand(v, 3) : v \in {0, 7, 255}}
    \cup {FadeToGrayCommand(v, 3) : v \in {0, 7, 255}}

\* Each of them at the root, in a loop block, and in a loop block of a
\* loop block
ShortenerTrees ==
    UNION {{<<c>>, <<NopCommand, LoopBlock(2, <<c, c>>)>>,
            <<LoopBlock(2, <<LoopBlock(3, <<c>>), NopCommand>>)>>}
           : c \in ColorCommands}

\* The j-th statement of a period: no two of them are equivalent
PeriodStatement(j) == SetGrayCommand(j, 0)

\* n copies of a period of k statements
Periodic(k, n) == [i \in 1..(n * k) |-> PeriodStatement(((i - 1) % k) + 1)]

\* Periodic sequences, alone, after a statement that is not of the period,
\* and before the start of one more copy
PeriodicTrees ==
    {prefix \o Periodic(k, n) \o suffix :
        k \in 1..MaxPeriod, n \in 2..MaxRepeats,
        prefix \in {<<>>, <<NopCommand>>},
        suffix \in {<<>>, <<PeriodStatement(1)>>}}

\* Runs of one command, around the largest iteration count of a loop block
LongRuns ==
    {[i \in 1..m |-> ResetTimerCommand] \o suffix :
        m \in 254..MaxRunLength, suffix \in {<<>>, <<EndCommand>>}}

InitOpt ==
    /\ pc = "tree"
    /\ ast \in OptTrees \cup ShortenerTrees
    /\ bytecode = <<>>
    /\ parsed = NoResult
    /\ source = NoResult
    /\ level \in OptLevels
    /\ optimised = NoResult
    /\ merged = NoResult
    /\ states = NoResult
    /\ opt_states = NoResult
    /\ shortened = NoResult
    /\ looped = NoResult
    /\ again = <<>>
    /\ VaruintIdle
    /\ PlayerIdle
    /\ PlanIdle
    /\ ExecIdle

\* create_optimiser_for_level(level).optimise(ast)
Optimise ==
    /\ pc = "tree"
    /\ optimised' = optimise_ast(level, ast)
    /\ pc' = "optimised"
    /\ UNCHANGED <<execVars, codecVars, varuintVars, level, merged, states,
                   opt_states, shortened, looped, again, playerVars, planVars>>

\* list(Executor().execute(...)) of the tree and of the optimised tree
Execute ==
    /\ pc = "optimised"
    /\ optimised.err = "none"
    /\ states' = Executor_execute(ast)
    /\ opt_states' = Executor_execute(optimised.value)
    /\ pc' = "executed"
    /\ UNCHANGED <<execVars, codecVars, varuintVars, level, optimised, merged,
                   shortened, looped, again, playerVars, planVars>>

\* CommandMerger().optimise(ast)
Merge ==
    /\ pc = "tree"
    /\ merged' = CommandMerger_optimise_ast(ast)
    /\ pc' = "merged"
    /\ UNCHANGED <<execVars, codecVars, varuintVars, level, optimised, states,
                   opt_states, shortened, looped, again, playerVars, planVars>>

\* ColorCommandShortener().optimise(ast)
Shorten ==
    /\ pc = "tree"
    /\ shortened' = ColorCommandShortener_optimise_ast(ast)
    /\ pc' = "shortened"
    /\ UNCHANGED <<execVars, codecVars, varuintVars, level, optimised, merged,
                   states, opt_states, looped, again, playerVars, planVars>>

\* LoopDetector().optimise(ast)
DetectLoops ==
    /\ pc = "tree"
    /\ looped' = LoopDetector_optimise_ast(ast)
    /\ pc' = "looped"
    /\ UNCHANGED <<execVars, codecVars, varuintVars, level, optimised, merged,
                   states, opt_states, shortened, again, playerVars, planVars>>

\* optimiser.optimise(...) of every child optimiser of the level, each on
\* the tree that the composite optimiser has returned
OptimiseAgain ==
    /\ pc = "optimised"
    /\ optimised.err = "none"
    /\ again' = [i \in 1..Len(create_optimiser_for_level(level)) |->
                    optimise(create_optimiser_for_level(level)[i],
                             optimised.value)]
    /\ pc' = "reoptimised"
    /\ UNCHANGED <<execVars, codecVars, varuintVars, level, optimised, merged,
                   states, opt_states, shortened, looped, playerVars, planVars>>

NextOpt ==
    Optimise \/ Execute \/ Merge \/ Shorten \/ DetectLoops \/ OptimiseAgain

SpecOpt == InitOpt /\ [][NextOpt]_vars

\* A sequence of statements, before LoopDetector().optimise(ast)
InitLoops ==
    /\ pc = "tree"
    /\ ast \in OptTrees \cup PeriodicTrees \cup LongRuns
    /\ bytecode = <<>>
    /\ parsed = NoResult
    /\ source = NoResult
    /\ level = 2
    /\ optimised = NoResult
    /\ merged = NoResult
    /\ states = NoResult
    /\ opt_states = NoResult
    /\ shortened = NoResult
    /\ looped = NoResult
    /\ again = <<>>
    /\ VaruintIdle
    /\ PlayerIdle
    /\ PlanIdle
    /\ ExecIdle

NextLoops == DetectLoops

SpecLoops == InitLoops /\ [][NextLoops]_vars

-----------------------------------------------------------------------------
(* Properties of the optimisers.                                           *)

MaxOf(S) == CHOOSE x \in S : \A y \in S : y <= x

\* The color a sequence of executor states stands for at time t: the color
\* of the last state at or before t (black before the first one) unless the
\* state that follows ends a fade, and then the rounded mixture of the two
ColorAt(yielded, t) ==
    LET before == {i \in 1..Len(yielded) : yielded[i].timestamp <= t}
    IN  IF before = {} THEN Color_BLACK
        ELSE LET i == MaxOf(before)
             IN  IF i < Len(yielded) /\ yielded[i + 1].is_fade
                 THEN mix_with(yielded[i].color, yielded[i + 1].color,
                               t - yielded[i].timestamp,
                               yielded[i + 1].timestamp - yielded[i].timestamp)
                 ELSE yielded[i].color

Timestamps(yielded) == {yielded[i].timestamp : i \in 1..Len(yielded)}

\* The times at which two executions are compared: every frame up to
\* MaxFrame, and the frames at and next to every state of either execution
FramesOf(first, second) ==
    LET marks == Timestamps(first.yielded) \cup Timestamps(second.yielded)
                 \cup {first.state.timestamp, second.state.timestamp}
    IN  (0..MaxFrame)
        \cup {t \in UNION {{m - 1, m, m + 1} : m \in marks} : t >= 0}

C5_NotLonger ==
    (pc \in {"optimised", "executed"} /\ level >= 1 /\ optimised.err = "none") =>
        Len(StatementSequence_to_bytecode(optimised.value))
            <= Len(StatementSequence_to_bytecode(ast))

\* The durations of the statements of a sequence, summed
RECURSIVE TotalDuration(_)
TotalDuration(statements) ==
    IF statements = <<>> THEN 0
    ELSE (IF "duration" \in DOMAIN Head(statements)
          THEN Head(statements).duration ELSE 0)
         + TotalDuration(Tail(statements))

\* C6: on a sequence whose durations are all below 2^28 the CommandMerger
\* completes without error, and the sum of the durations of the statements
\* is the same after the pass as before it.
C6_MergerKeepsTotalDuration ==
    pc = "merged" =>
        /\ merged.err = "none"
        /\ TotalDuration(merged.value) = TotalDuration(ast)

-----------------------------------------------------------------------------
(* The random-access player.  Its timestamps are seconds; they are kept    *)
(* here in ticks of 0.00001 s, the distance of _START from zero, so that   *)
(* a frame is TicksPerFrame ticks.  The conversion float(event.timestamp)  *)
(* of a whole number of frames is taken to be exact.                       *)

\* A frame (1/50 s) in ticks of 0.00001 s
TicksPerFrame == 2000

\* float("inf")
Infinity == 2147483647

\* maxlen of the deque of events
maxlen == 32

\* _START and _END
Player_START == ExecutorState(-1, Color_BLACK, FALSE)
Player_END == ExecutorState(Infinity, Color_BLACK, FALSE)

\* The generator Executor().execute(ast) before its first next(), and the
\* value None of Player._event_iter
Generator == [kind |-> "generator", taken |-> 0, finished |-> FALSE]
None == [kind |-> "None"]

\* Player._rewind
rewind(player) ==
    [events |-> <<Player_START>>,
     last_event_time |-> -1 * FPS * TicksPerFrame,
     event_iter |-> Generator,
     raised |-> "none"]

\* deque.append with maxlen: the oldest event is dropped from a full deque
deque_append(deque, event) ==
    IF Len(deque) >= maxlen THEN Append(Tail(deque), event)
    ELSE Append(deque, event)

\* event.timestamp = float(event.timestamp); self._events.append(event); ...
store_event(player, event, iter) ==
    [player EXCEPT !.events = deque_append(@, event),
                   !.event_iter = IF event = Player_END THEN None ELSE iter,
                   !.last_event_time = event.timestamp]

\* Player._get_next_event: next(self._event_iter, _END) hands out the next
\* state of the execution, raises what the executor raises, and falls back
\* to _END once the generator is finished
get_next_event(player, run) ==
    LET iter == player.event_iter
    IN  IF iter.kind = "None" THEN player
        ELSE IF ~iter.finished /\ iter.taken < Len(run.yielded)
        THEN LET state == run.yielded[iter.taken + 1]
             IN  store_event(player,
                             [state EXCEPT !.timestamp = @ * TicksPerFrame],
                             [iter EXCEPT !.taken = @ + 1])
        ELSE IF ~iter.finished /\ run.status = "error"
        THEN [player EXCEPT !.event_iter.finished = TRUE,
                            !.raised = "RuntimeError"]
        ELSE store_event(player, Player_END, [iter EXCEPT !.finished = TRUE])

\* "while timestamp >= self._last_event_time: self._get_next_event()"
RECURSIVE fast_forward(_, _, _)
fast_forward(player, run, timestamp) ==
    IF player.raised # "none" \/ ~(timestamp >= player.last_event_time)
    THEN player
    ELSE fast_forward(get_next_event(player, run), run, timestamp)

\* ev[index] of Python, where a negative index counts from the end
item(ev, index) == IF index < 0 THEN ev[Len(ev) + index + 1] ELSE ev[index + 1]

\* "while index > 0 and timestamp < ev[index].timestamp: index -= 1"
RECURSIVE scan_back(_, _, _)
scan_back(ev, index, timestamp) ==
    IF index > 0 /\ timestamp < item(ev, index).timestamp
    THEN scan_back(ev, index - 1, timestamp)
    ELSE index

\* "return color"
ColorReturned(color) == [err |-> "none", value |-> color]

\* The end of Player.get_color_at: the bracketing pair and its color
bracket_color(ev, timestamp) ==
    LET index == scan_back(ev, Len(ev) - 2, timestamp)
        start == item(ev, index)
        end == item(ev, index + 1)
    IN  IF end.is_fade
        THEN IF end.timestamp = start.timestamp THEN Raised("ZeroDivisionError")
             ELSE ColorReturned(mix_with(start.color, end.color,
                                         timestamp - start.timestamp,
                                         end.timestamp - start.timestamp))
        ELSE ColorReturned(start.color)

\* Player.get_color_at for a finite timestamp: the player afterwards and
\* the color returned, or the name of the exception raised
get_color_at(player, run, timestamp) ==
    LET rewound == IF player.events # <<>>
                      /\ timestamp < player.events[1].timestamp
                   THEN rewind(player) ELSE [player EXCEPT !.raised = "none"]
        forwarded == fast_forward(rewound, run, timestamp)
    IN  [player |-> forwarded,
         result |-> IF forwarded.raised # "none" THEN Raised(forwarded.raised)
                    ELSE bracket_color(forwarded.events, timestamp)]

\* Short programs, and programs of more events than the deque holds
PlayerLeaves ==
    {SetColorCommand(Orange, 1), FadeToColorCommand(Gray, 2), SleepCommand(1),
     EndCommand, ResetTimerCommand}

LongPrograms ==
    {<<LoopBlock(34, <<SetColorCommand(Orange, 1), SetColorCommand(Gray, 1)>>)>>,
     <<LoopBlock(20, <<SetColorCommand(Orange, 1), FadeToColorCommand(Gray, 1)>>)>>,
     <<WaitUntilCommand(1), FadeToColorCommand(Orange, 2), SetColorCommand(Gray, 1)>>}

PlayerPrograms == Trees(PlayerLeaves, {2}, MaxPlayerNodes) \cup LongPrograms

\* Query timestamps in ticks: before -1 s, between -1 s and _START, zero,
\* half a frame, whole frames, and a late frame
QueryTimes == {-200000, -50000, 0, 1000, 2000, 4000, 70000}

RECURSIVE QuerySequences(_)
QuerySequences(n) ==
    IF n = 0 THEN {<<>>}
    ELSE {<<>>} \cup {<<t>> \o rest : t \in QueryTimes,
                                      rest \in QuerySequences(n - 1)}

\* Player(ast), and the queries that will be made
InitPlayer ==
    /\ pc = "playing"
    /\ ast \in PlayerPrograms
    /\ bytecode = <<>>
    /\ parsed = NoResult
    /\ source = NoResult
    /\ events = rewind(<<>>).events
    /\ last_event_time = rewind(<<>>).last_event_time
    /\ event_iter = rewind(<<>>).event_iter
    /\ queries \in QuerySequences(MaxQueries)
    /\ answers = <<>>
    /\ VaruintIdle
    /\ OptIdle
    /\ PlanIdle
    /\ ExecIdle

\* player.get_color_at(Head(queries))
GetColorAt ==
    /\ pc = "playing"
    /\ queries # <<>>
    /\ LET call == get_color_at([events |-> events,
                                 last_event_time |-> last_event_time,
                                 event_iter |-> event_iter,
                                 raised |-> "none"],
                                Executor_execute(ast), Head(queries))
       IN  /\ events' = call.player.events
           /\ last_event_time' = call.player.last_event_time
           /\ event_iter' = call.player.event_iter
           /\ answers' = Append(answers, [timestamp |-> Head(queries),
                                          result |-> call.result])
    /\ queries' = Tail(queries)
    /\ UNCHANGED <<execVars, pc, codecVars, varuintVars, optVars, planVars>>

NextPlayer == GetColorAt

SpecPlayer == InitPlayer /\ [][NextPlayer]_vars

-----------------------------------------------------------------------------
(* Properties of the player.                                               *)

\* The states an execution yields, with their timestamps in ticks
InTicks(yielded) ==
    [i \in 1..Len(yielded) |->
        [yielded[i] EXCEPT !.timestamp = @ * TicksPerFrame]]

\* C9: every get_color_at(t) returns the color that the state sequence of
\* the executor alone determines: the color of the last state at or before
\* t (black before the first), or the rounded interpolation towards the
\* following state when that one ends a fade; whatever was asked before.
C9_ColorOfStateSequence ==
    \A i \in 1..Len(answers) :
        answers[i].result =
            ColorReturned(ColorAt(InTicks(Executor_execute(ast).yielded),
                                  answers[i].timestamp))

-----------------------------------------------------------------------------
(* The compilation plan.  Stages are numbers; should_run gives what        *)
(* should_run() of a stage returns and step_attrs which of the attributes  *)
(* "output" and "output_object" it has.  A done callback is a record: func *)
(* names the function, registered is the length of the log of calls when   *)
(* it was registered, and stage describes the stage that the function adds *)
(* to the plan with add_step, if it adds one: what its should_run()        *)
(* returns, its attributes, and whether and_when_done is called on it.     *)

\* The stages of a plan, and the first stage a callback may add
InitialStages == 1..MaxStages
AddedStage == MaxStages + 1

\* A stage without output attribute (DummyStage, a stage that writes
\* files), one with "output" alone, one with "output" and "output_object"
\* (ObjectTargetMixin)
StageAttributes == {"none", "output", "output_object"}

\* The increasing sequence of the elements of a set of numbers
RECURSIVE Sorted(_)
Sorted(S) ==
    IF S = {} THEN <<>>
    ELSE LET least == CHOOSE x \in S : \A y \in S : x <= y
         IN  <<least>> \o Sorted(S \ {least})

\* list.index(x): the position, from 0, of the first occurrence
list_index(list, x) ==
    (CHOOSE i \in 1..Len(list) :
        list[i] = x /\ \A j \in 1..(i - 1) : list[j] # x) - 1

\* "step in self._output_steps"
is_output_step(step) == \E i \in 1..Len(output_steps) : output_steps[i] = step

\* "force or is_output_step or step.should_run()"
runs(step) == force \/ is_output_step(step) \/ should_run[step]

\* A stage object that is not in the plan yet
new_stage(plan_steps) ==
    AddedStage + Cardinality({i \in 1..Len(plan_steps) :
                                 plan_steps[i] >= AddedStage})

\* The number of callbacks registered so far, on any stage
num_callbacks(registry) ==
    LET RECURSIVE count(_)
        count(S) == IF S = {} THEN 0
                    ELSE LET s == CHOOSE x \in S : TRUE
                         IN  Len(registry[s]) + count(S \ {s})
    IN  count(DOMAIN registry)

\* What a function that adds no stage is said to add
Nothing ==
    [adds |-> FALSE, after |-> FALSE, should_run |-> TRUE, attr |-> "none",
     and_when_done |-> FALSE]

\* The stages that a function may create and add, with plan.add_step(stage)
\* or, "after" being true, with plan.insert_step(stage, after=step), step
\* being the stage that has just run
CreatedStages ==
    [adds : {TRUE}, after : BOOLEAN, should_run : BOOLEAN,
     attr : StageAttributes, and_when_done : BOOLEAN]

\* Plan.insert_step(step, after=after)
insert_step(plan_steps, step, after) ==
    LET index == list_index(plan_steps, after) + 1
    IN  SubSeq(plan_steps, 1, index) \o <<step>>
        \o SubSeq(plan_steps, index + 1, Len(plan_steps))

\* A callback: "partial(func, *args) if args else func"
Callback(registry, log, stage) ==
    [func |-> num_callbacks(registry) + 1, registered |-> Len(log),
     stage |-> stage]

\* Plan._register_callback(step, "done", func)
register_callback(registry, step, callback) ==
    [registry EXCEPT ![step] = Append(@, callback)]

\* The arguments of a done callback of a stage: "callback(step.output_object)",
\* "callback(step.output)" or "callback()"
callback_args(step) ==
    CASE step_attrs[step] = "output_object" ->
            <<[attr |-> "output_object", of |-> step]>>
      [] step_attrs[step] = "output" -> <<[attr |-> "output", of |-> step]>>
      [] OTHER -> <<>>

\* The log entry of step.run(environment=environment)
RunEntry(step) ==
    [event |-> "run", execution |-> executions, step |-> step, func |-> 0,
     args |-> <<>>]

\* The log entry of a call of a done callback
DoneEntry(step, callback, args) ==
    [event |-> "done", execution |-> executions, step |-> step,
     func |-> callback.func, args |-> args]

\* A done callback is called: the call is logged; a callback that adds a
\* stage calls plan.add_step(stage) or plan.insert_step(stage, after=step),
\* and and_when_done on the result when it chains a callback
call_callback(plan, step, callback, args) ==
    LET log == Append(plan.invoked, DoneEntry(step, callback, args))
        stage == new_stage(plan.steps)
    IN  IF ~callback.stage.adds
        THEN [plan EXCEPT !.invoked = log]
        ELSE [steps |-> IF callback.stage.after
                        THEN insert_step(plan.steps, stage, step)
                        ELSE Append(plan.steps, stage),
              callbacks |->
                  plan.callbacks
                  @@ (stage :> IF callback.stage.and_when_done
                               THEN <<Callback(plan.callbacks, log, Nothing)>>
                               ELSE <<>>),
              should_run |-> plan.should_run
                             @@ (stage :> callback.stage.should_run),
              step_attrs |-> plan.step_attrs
                             @@ (stage :> callback.stage.attr),
              invoked |-> log]

\* As call_done_callbacks, but the callbacks are called last one first
RECURSIVE call_done_callbacks_reversed(_, _, _)
call_done_callbacks_reversed(plan, step, list) ==
    IF list = <<>> THEN plan
    ELSE call_done_callbacks_reversed(
             call_callback(plan, step, list[Len(list)], callback_args(step)),
             step, SubSeq(list, 1, Len(list) - 1))

\* "for callback in callbacks:" of Plan.execute
RECURSIVE call_done_callbacks(_, _, _)
call_done_callbacks(plan, step, list) ==
    IF list = <<>> THEN plan
    ELSE call_done_callbacks(
             call_callback(plan, step, Head(list), callback_args(step)),
             step, Tail(list))

\* A plan of up to MaxStages stages: add_step for each, mark_as_output for
\* some (stages with an output object), and_when_done for at most one
InitPlan ==
    /\ pc = "plan"
    /\ \E n \in 0..MaxStages :
          /\ steps = [i \in 1..n |-> i]
          /\ \E outputs \in SUBSET (1..n) :
                /\ output_steps = Sorted(outputs)
                /\ step_attrs \in [1..n -> StageAttributes]
                /\ \A s \in outputs : step_attrs[s] = "output_object"
          /\ \/ callbacks = [s \in 1..n |-> <<>>]
             \/ \E adder \in 1..n, stage \in CreatedStages :
                   callbacks =
                      [s \in 1..n |->
                          IF s = adder
                          THEN <<Callback(<<>>, <<>>, stage)>>
                          ELSE <<>>]
          /\ should_run \in [1..n -> BOOLEAN]
    /\ force \in BOOLEAN
    /\ step_index = 0
    /\ num_steps = 0
    /\ considered = <<>>
    /\ ran = <<>>
    /\ executions = 0
    /\ invoked = <<>>
    /\ CodecIdle
    /\ VaruintIdle
    /\ OptIdle
    /\ PlayerIdle
    /\ ExecIdle

\* plan.when_step_is_done(step, func), between two calls of Plan.execute
when_step_is_done ==
    /\ pc \in {"plan", "returned"}
    /\ num_callbacks(callbacks) < MaxCallbacks
    /\ \E i \in 1..Len(steps) :
          callbacks' = register_callback(
                           callbacks, steps[i],
                           Callback(callbacks, invoked, Nothing))
    /\ UNCHANGED <<execVars, pc, codecVars, varuintVars, optVars, playerVars, steps,
                   output_steps, should_run, step_attrs, force, step_index,
                   num_steps, considered, ran, executions, invoked>>

\* Plan.execute up to its loop: "step_index, num_steps = 0, len(self._steps)"
EnterExecute ==
    /\ pc \in {"plan", "returned"}
    /\ executions < MaxExecutions
    /\ executions' = executions + 1
    /\ step_index' = 0
    /\ num_steps' = Len(steps)
    /\ considered' = <<>>
    /\ ran' = <<>>
    /\ pc' = "loop"
    /\ UNCHANGED <<execVars, codecVars, varuintVars, optVars, playerVars, steps,
                   output_steps, callbacks, should_run, step_attrs, force,
                   invoked>>

\* One round of the while loop of Plan.execute: the stage at step_index is
\* looked at; when it is to run it is run, its callbacks are called, and
\* num_steps and step_index are worked out again; when it is not to run,
\* nothing else happens.
ConsiderStep ==
    /\ pc = "loop"
    /\ step_index < num_steps
    /\ Len(considered) < MaxConsidered
    /\ LET step == steps[step_index + 1]
       IN  /\ considered' = Append(considered, step)
           /\ IF runs(step)
              THEN LET done == call_done_callbacks(
                                   [steps |-> steps, callbacks |-> callbacks,
                                    should_run |-> should_run,
                                    step_attrs |-> step_attrs,
                                    invoked |-> Append(invoked,
                                                       RunEntry(step))],
                                   step, callbacks[step])
                   IN  /\ ran' = Append(ran, step)
                       /\ steps' = done.steps
                       /\ callbacks' = done.callbacks
                       /\ should_run' = done.should_run
                       /\ step_attrs' = done.step_attrs
                       /\ invoked' = done.invoked
                       /\ num_steps' = Len(steps')
                       /\ step_index' = list_index(steps', step) + 1
              ELSE UNCHANGED <<execVars, ran, steps, callbacks, invoked, should_run,
                               step_attrs, num_steps, step_index>>
    /\ UNCHANGED <<execVars, pc, codecVars, varuintVars, optVars, playerVars,
                   output_steps, force, executions>>

\* The loop of Plan.execute is left and the results are returned
Return ==
    /\ pc = "loop"
    /\ ~(step_index < num_steps)
    /\ pc' = "returned"
    /\ UNCHANGED <<execVars, codecVars, varuintVars, optVars, playerVars, planVars>>

NextPlan == when_step_is_done \/ EnterExecute \/ ConsiderStep \/ Return

SpecPlan == InitPlan /\ [][NextPlan]_vars

-----------------------------------------------------------------------------
(* Properties of the plan.                                                 *)

\* C10: Plan.execute looks at each stage exactly once, in the order of the
\* list; it runs a stage exactly when force is true, the stage is an output
\* stage or its should_run() is true, and skips it otherwise; it returns
\* after the last stage.
C10_EachStageOnceInOrder ==
    /\ Len(considered) <= Len(steps)
    /\ \A i \in 1..Len(considered) : considered[i] = steps[i]
    /\ ran = SelectSeq(considered, runs)
    /\ pc = "returned" => considered = steps

\* What a done callback of a stage is to receive: the output of the stage
\* when the stage has one, and no argument otherwise
OutputOf(step) ==
    IF step_attrs[step] = "none" THEN <<>>
    ELSE <<[attr |-> step_attrs[step], of |-> step]>>

\* The done callbacks of a stage that were registered when the log of calls
\* had fewer than i entries, in the order of their registration
RegisteredBefore(step, i) ==
    SelectSeq(callbacks[step], LAMBDA callback : callback.registered < i)

\* The position of a stage in the plan
PlaceOf(step) == list_index(steps, step)

\* The stages run by the call of Plan.execute number e, in the order of
\* their runs
RunsOf(e) ==
    LET entries == SelectSeq(invoked, LAMBDA entry :
                                 entry.event = "run" /\ entry.execution = e)
    IN  [i \in 1..Len(entries) |-> entries[i].step]

\* C11: the log of calls is a sequence of blocks, one for each run of a
\* stage: the run, then one call of each done callback registered on the
\* stage by then, in the order of registration, each with the output of the
\* stage as its argument when the stage has one and with no argument
\* otherwise; so no callback of a stage is called unless the stage has just
\* run, and none after a later stage has run.  Within one call of
\* Plan.execute the stages run in the order of the plan, and every call
\* that returns has run the stages that are to run, callbacks included.
C11_CallbacksAfterEachRun ==
    /\ invoked # <<>> => invoked[1].event = "run"
    /\ \A i \in 1..Len(invoked) :
          invoked[i].event = "run" =>
              LET step == invoked[i].step
                  expected == RegisteredBefore(step, i)
                  next == i + Len(expected) + 1
              IN  /\ next <= Len(invoked) + 1
                  /\ \A k \in 1..Len(expected) :
                        /\ invoked[i + k].event = "done"
                        /\ invoked[i + k].step = step
                        /\ invoked[i + k].func = expected[k].func
                        /\ invoked[i + k].args = OutputOf(step)
                        /\ invoked[i + k].execution = invoked[i].execution
                  /\ next <= Len(invoked) => invoked[next].event = "run"
    /\ \A i, j \in 1..Len(invoked) :
          /\ i < j
          /\ invoked[i].event = "run"
          /\ invoked[j].event = "run"
          /\ invoked[i].execution = invoked[j].execution
          => PlaceOf(invoked[i].step) < PlaceOf(invoked[j].step)
    /\ pc = "returned" => RunsOf(executions) = SelectSeq(steps, runs)

\* Plan.execute has returned twice, and both times it ran a stage with an
\* output on which two callbacks were registered before the first call
C11_Witness ==
    /\ pc = "returned"
    /\ executions = 2
    /\ \E i, j \in 1..Len(invoked) :
          /\ invoked[i].event = "run"
          /\ invoked[j].event = "run"
          /\ invoked[i].step = invoked[j].step
          /\ invoked[i].execution = 1
          /\ invoked[j].execution = 2
          /\ step_attrs[invoked[i].step] # "none"
          /\ Len(RegisteredBefore(invoked[i].step, 1)) >= 2

-----------------------------------------------------------------------------
(* The executor at work: the generator of Executor().execute(ast) is       *)
(* followed from one statement of the root sequence to the next.           *)

ExecLeaves ==
    {SleepCommand(0), SleepCommand(2), WaitUntilCommand(0),
     WaitUntilCommand(1), SetColorCommand(Orange, 1),
     FadeToColorCommand(Orange, 2), FadeToBlackCommand(1), EndCommand,
     ResetTimerCommand}

ExecIterations == {0, 1, 3}

\* Executor().execute(ast), before the first next() on the generator
InitExec ==
    /\ pc = "executing"
    /\ ast \in Trees(ExecLeaves, ExecIterations, MaxExecNodes)
    /\ bytecode = <<>>
    /\ parsed = NoResult
    /\ source = NoResult
    /\ executor = Executor_init
    /\ previous = Executor_init
    /\ position = 0
    /\ unrolled = <<>>
    /\ fps = FPS
    /\ frames = <<>>
    /\ VaruintIdle
    /\ OptIdle
    /\ PlayerIdle
    /\ PlanIdle

\* One round of "for statement in node.statements" of
\* Executor._execute_StatementSequence, for the root sequence
ExecuteStatement ==
    /\ pc = "executing"
    /\ position < Len(ast)
    /\ executor.status = "running"
    /\ previous' = executor
    /\ executor' = execute(executor, ast[position + 1])
    /\ position' = position + 1
    /\ UNCHANGED <<pc, codecVars, varuintVars, optVars, playerVars, planVars,
                   unrolled, fps, frames>>

\* The generator is exhausted or has raised
Finish ==
    /\ pc = "executing"
    /\ position = Len(ast) \/ executor.status # "running"
    /\ pc' = "executed"
    /\ UNCHANGED <<codecVars, varuintVars, optVars, playerVars, planVars,
                   execVars>>

NextExec == ExecuteStatement \/ Finish

SpecExec == InitExec /\ [][NextExec]_vars

-----------------------------------------------------------------------------
(* Properties of the executor.  Times are in frames: t frames are t / 50   *)
(* seconds.                                                                *)

\* A statement of the class has just been executed
Executed(classes) == position > 0 /\ ast[position].op \in classes

\* The states that the statement executed last has yielded
Emitted ==
    SubSeq(executor.yielded, Len(previous.yielded) + 1, Len(executor.yielded))

\* C12 as claimed: sleep(d) at clock t yields one state, not a fade, with
\* the color as it was and the timestamp t, and leaves the clock at t + d.
C12_SleepYieldsThenAdvances ==
    Executed({"SleepCommand"}) =>
        /\ Emitted = <<ExecutorState(previous.state.timestamp,
                                     previous.state.color, FALSE)>>
        /\ executor.state.timestamp =
               previous.state.timestamp + ast[position].duration

\* C12 amended: sleep(d) at clock t yields one state, not a fade, with the
\* color as it was and the timestamp t + d, the clock having advanced
\* before the state is yielded, and leaves the executor in that state.
C12_SleepAdvancesThenYields ==
    Executed({"SleepCommand"}) =>
        LET after == ExecutorState(previous.state.timestamp
                                       + ast[position].duration,
                                   previous.state.color, FALSE)
        IN  /\ Emitted = <<after>>
            /\ executor.state = after
            /\ executor.status = "running"

\* A sleep of two frames has been executed after a fade to a color
C12_Witness ==
    /\ Executed({"SleepCommand"})
    /\ ast[position].duration = 2
    /\ previous.state.is_fade
    /\ previous.state.color # Color_BLACK

\* C15: wait_until(t) at clock c sets the clock to max(c, t), t being a
\* number of frames as a duration is, and yields one state, not a fade, at
\* that time.
C15_WaitUntilFrame ==
    Executed({"WaitUntilCommand"}) =>
        LET after == ExecutorState(Max(previous.state.timestamp,
                                       ast[position].timestamp),
                                   previous.state.color, FALSE)
        IN  /\ Emitted = <<after>>
            /\ executor.state = after

FadeCommands ==
    {"FadeToBlackCommand", "FadeToColorCommand", "FadeToGrayCommand",
     "FadeToWhiteCommand"}

\* The color that a fade command names
FadeTarget(node) ==
    CASE node.op = "FadeToBlackCommand" -> Color(0, 0, 0)
      [] node.op = "FadeToWhiteCommand" -> Color(255, 255, 255)
      [] node.op = "FadeToGrayCommand" ->
            Color(node.value, node.value, node.value)
      [] node.op = "FadeToColorCommand" ->
            Color(node.color.red, node.color.green, node.color.blue)

\* C16: fade_to_*(c, d) at clock t yields, when is_fade is false, the state
\* as it is (timestamp t, the color so far, not a fade) and then the state
\* with timestamp t + d, color c and is_fade true; when is_fade is true,
\* which it is exactly when the state yielded last ended a fade, it yields
\* the second of these alone.
C16_FadeMarksItsStart ==
    /\ Executed(FadeCommands) =>
          LET end == ExecutorState(previous.state.timestamp
                                       + ast[position].duration,
                                   FadeTarget(ast[position]), TRUE)
          IN  /\ Emitted = IF previous.state.is_fade THEN <<end>>
                           ELSE <<previous.state, end>>
              /\ executor.state = end
    /\ executor.state.is_fade
           <=> /\ executor.yielded # <<>>
               /\ executor.yielded[Len(executor.yielded)].is_fade

\* A fade has been executed at the start, and another one right after it
C16_Witness ==
    /\ position = 2
    /\ ast[1].op \in FadeCommands
    /\ ast[2].op \in FadeCommands
    /\ Len(executor.yielded) = 3
    /\ Len(Emitted) = 1

\* A sequence repeated n times
RECURSIVE Repeat(_, _)
Repeat(sequence, n) ==
    IF n = 0 THEN <<>> ELSE sequence \o Repeat(sequence, n - 1)

\* What stands for the rounds of an endless loop that are not followed
Endless == [op |-> "Endless"]

\* The commands of a statement sequence in the order of their execution
\* when no command ends it: each loop block is replaced by its body n
\* times, an endless one by the rounds that are followed
RECURSIVE Unrolled(_)
Unrolled(statements) ==
    IF statements = <<>> THEN <<>>
    ELSE LET first == Head(statements)
         IN  (IF first.op # "LoopBlock" THEN <<first>>
              ELSE IF first.iterations >= 1
                   THEN Repeat(Unrolled(first.body), first.iterations)
                   ELSE Repeat(Unrolled(first.body), MaxEndlessIterations)
                        \o <<Endless>>)
             \o Unrolled(Tail(statements))

\* The commands of a sequence without loop blocks executed one after the
\* other, up to the first end command
RECURSIVE RunFlat(_, _)
RunFlat(ex, commands) ==
    IF commands = <<>> \/ ex.status # "running" THEN ex
    ELSE RunFlat(IF Head(commands) = Endless
                 THEN [ex EXCEPT !.status = "endless"]
                 ELSE execute(ex, Head(commands)),
                 Tail(commands))

\* C17: a loop block of n >= 1 iterations yields what its body executed n
\* times in succession yields, one of 0 iterations goes through its body
\* again and again, and an end command in a body, however deep, ends the
\* whole execution with no further state: the executor is where the
\* execution of the unrolled commands up to the first end command leaves it.
C17_LoopIsItsBodyRepeated ==
    /\ executor = RunFlat(Executor_init, Unrolled(SubSeq(ast, 1, position)))
    /\ executor.status = "stopped" =>
          \E i \in 1..Len(Unrolled(ast)) :
              /\ Unrolled(ast)[i].op = "EndCommand"
              /\ \A j \in 1..(i - 1) : Unrolled(ast)[j].op # "EndCommand"
              /\ executor.yielded =
                     RunFlat(Executor_init,
                             SubSeq(Unrolled(ast), 1, i - 1)).yielded

\* A loop block of three iterations was ended by the end command of its
\* body in the first round, after a state was yielded
C17_Witness ==
    /\ Executed({"LoopBlock"})
    /\ ast[position].iterations = 3
    /\ Len(ast[position].body) = 2
    /\ ast[position].body[2].op = "EndCommand"
    /\ Len(Emitted) = 1
    /\ executor.status = "stopped"

\* C18: the timestamps of the states yielded never decrease.
C18_TimestampsNeverDecrease ==
    \A i, j \in 1..Len(executor.yielded) :
        i < j => executor.yielded[i].timestamp <= executor.yielded[j].timestamp

\* A wait_until for a time that has passed has been executed after a loop
\* block that moved the clock
C18_Witness ==
    /\ Executed({"WaitUntilCommand"})
    /\ ast[position].timestamp * FPS < previous.state.timestamp
    /\ ast[1].op = "LoopBlock"
    /\ Len(executor.yielded) >= 3

-----------------------------------------------------------------------------
(* Properties of the single optimiser passes.                              *)

\* C13: each pass returns true exactly when it has changed the tree.
C13_ReturnsWhetherChanged ==
    /\ (pc = "merged" /\ merged.err = "none") =>
           (merged.changed <=> merged.value # ast)
    /\ pc = "shortened" => (shortened.changed <=> shortened.value # ast)
    /\ pc = "looped" => (looped.changed <=> looped.value # ast)

\* C14: the tree that the composite optimiser returns at level 1 or 2 is
\* left as it is by every child optimiser of the level.
C14_FixedPointOfEveryPass ==
    (pc = "reoptimised" /\ level >= 1) =>
        \A i \in 1..Len(again) :
            /\ again[i].err = "none"
            /\ again[i].value = optimised.value

\* The last position j from i on such that every statement after i up to j
\* can be merged into a run that starts at i
RunEnd(body, i, CanJoin(_)) ==
    MaxOf({j \in i..Len(body) : \A k \in (i + 1)..j : CanJoin(body[k])})

\* The sum of the durations of the statements from position a to b
RECURSIVE DurationSum(_, _, _)
DurationSum(body, a, b) ==
    IF a > b THEN 0 ELSE body[a].duration + DurationSum(body, a + 1, b)

\* The statements from position i on with every maximal run replaced as the
\* three rules of the merger say
RECURSIVE MergedRuns(_, _)
MergedRuns(body, i) ==
    IF i > Len(body) THEN <<>>
    ELSE LET first == body[i]
             SameColor(s) ==
                 \/ s.op = "SleepCommand"
                 \/ /\ s.op \in {"SetColorCommand", "FadeToColorCommand"}
                    /\ s.color = first.color
             IsSleep(s) == s.op = "SleepCommand"
         IN  CASE first.op = "SetColorCommand" ->
                    LET j == RunEnd(body, i, SameColor)
                    IN  <<SetColorCommand(first.color, DurationSum(body, i, j))>>
                        \o MergedRuns(body, j + 1)
               [] first.op = "FadeToColorCommand" ->
                    LET j == RunEnd(body, i, SameColor)
                    IN  (IF j > i
                         THEN <<first, SleepCommand(DurationSum(body, i + 1, j))>>
                         ELSE <<first>>)
                        \o MergedRuns(body, j + 1)
               [] first.op = "SleepCommand" ->
                    LET j == RunEnd(body, i, IsSleep)
                    IN  <<SleepCommand(DurationSum(body, i, j))>>
                        \o MergedRuns(body, j + 1)
               [] OTHER -> <<first>> \o MergedRuns(body, i + 1)

\* C19: the CommandMerger turns a statement sequence into the sequence in
\* which each maximal run from a set_color on is one set_color of the summed
\* durations, each fade_to_color with a run after it is followed by one
\* sleep of the summed durations of the run, each maximal run of sleeps is
\* one sleep of the summed durations, and every other statement is as it
\* was, in its place.
C19_MergerRules ==
    pc = "merged" =>
        /\ merged.err = "none"
        /\ merged.value = MergedRuns(ast, 1)

\* A statement with the replacement that the shortener is to make
ShortenedStatement(node) ==
    CASE node.op = "SetColorCommand" /\ node.color = Black ->
            SetBlackCommand(node.duration)
      [] node.op = "SetColorCommand" /\ node.color = White ->
            SetWhiteCommand(node.duration)
      [] node.op = "SetColorCommand" /\ node.color.red = node.color.green
             /\ node.color.green = node.color.blue
             /\ node.color \notin {Black, White} ->
            SetGrayCommand(node.color.red, node.duration)
      [] node.op = "SetGrayCommand" /\ node.value = 0 ->
            SetBlackCommand(node.duration)
      [] node.op = "SetGrayCommand" /\ node.value = 255 ->
            SetWhiteCommand(node.duration)
      [] node.op = "FadeToColorCommand" /\ node.color = Black ->
            FadeToBlackCommand(node.duration)
      [] node.op = "FadeToColorCommand" /\ node.color = White ->
            FadeToWhiteCommand(node.duration)
      [] node.op = "FadeToColorCommand" /\ node.color.red = node.color.green
             /\ node.color.green = node.color.blue
             /\ node.color \notin {Black, White} ->
            FadeToGrayCommand(node.color.red, node.duration)
      [] node.op = "FadeToGrayCommand" /\ node.value = 0 ->
            FadeToBlackCommand(node.duration)
      [] node.op = "FadeToGrayCommand" /\ node.value = 255 ->
            FadeToWhiteCommand(node.duration)
      [] OTHER -> node

\* A statement sequence with the replacements made at every depth
RECURSIVE ShortenedTree(_)
ShortenedTree(statements) ==
    [i \in 1..Len(statements) |->
        IF statements[i].op = "LoopBlock"
        THEN LoopBlock(statements[i].iterations,
                       ShortenedTree(statements[i].body))
        ELSE ShortenedStatement(statements[i])]

\* C20: after the ColorCommandShortener every set_color, fade_to_color,
\* set_gray and fade_to_gray of black, white or a gray is the black, white
\* or gray command of the same duration, at every depth, and every other
\* statement is as it was.
C20_ShortenerReplacements ==
    pc = "shortened" =>
        /\ shortened.err = "none"
        /\ shortened.value = ShortenedTree(ast)

-----------------------------------------------------------------------------
(* Properties of the loop detector.                                        *)

\* The k statements from position i on are followed by a copy of themselves
IsRepeated(body, i, k) ==
    /\ i + 2 * k - 1 <= Len(body)
    /\ \A j \in 0..(k - 1) :
          are_statements_equivalent(body[i + j], body[i + k + j])

\* The number of copies of the k statements from position i on that follow
\* one another, the k statements themselves included
Copies(body, i, k) ==
    MaxOf({n \in 1..((Len(body) - i + 1) \div k) :
              \A j \in 0..((n - 1) * k - 1) :
                  are_statements_equivalent(body[i + j], body[i + k + j])})

\* The body lengths of the loops that may start at position i
Candidates(body, i) == {k \in 1..max_loop_len : IsRepeated(body, i, k)}

\* The loop block that stands for the copies
CandidateBlock(body, i, k) ==
    LoopBlock(Min(Copies(body, i, k), 255), SubSeq(body, i, i + k - 1))

\* The candidates than which no other candidate encodes shorter
Shortest(body, i) ==
    {k \in Candidates(body, i) :
        \A other \in Candidates(body, i) :
            LoopBlock_length_in_bytes(CandidateBlock(body, i, k))
                <= LoopBlock_length_in_bytes(CandidateBlock(body, i, other))}

\* The first position at which a loop may start
FirstLoopStarts(body) ==
    {i \in 1..Len(body) :
        /\ Candidates(body, i) # {}
        /\ \A h \in 1..(i - 1) : Candidates(body, h) = {}}

\* C21: every body length k from 1 to 8 is considered at a starting index:
\* where the first repetition of a sequence starts, the statements before
\* it are kept and the repetition is replaced by a loop block whose body is
\* the k statements of a candidate that encodes shortest, for k = 8 too.
C21_EveryBodyLengthUpToEight ==
    pc = "looped" =>
        \A i \in FirstLoopStarts(ast) :
            /\ Len(looped.value) >= i
            /\ SubSeq(looped.value, 1, i - 1) = SubSeq(ast, 1, i - 1)
            /\ looped.value[i].op = "LoopBlock"
            /\ \E k \in Shortest(ast, i) :
                  looped.value[i].body = SubSeq(ast, i, i + k - 1)

\* The loop block stands for n * k statements at the start of the
\* sequence, n and k being its iteration count and the length of its
\* body: its body is the first k of them, and they are n copies of it
StandsFor(block, statements) ==
    /\ block.op = "LoopBlock"
    /\ block.iterations \in 2..255
    /\ block.body # <<>>
    /\ LET k == Len(block.body)
           n == block.iterations
       IN  /\ n * k <= Len(statements)
           /\ block.body = SubSeq(statements, 1, k)
           /\ \A j \in 1..(n * k) :
                 are_statements_equivalent(statements[j],
                                           block.body[((j - 1) % k) + 1])

\* The first sequence is the second one with some runs of statements
\* replaced by loop blocks that stand for them, and nothing else changed
RECURSIVE Folded(_, _)
Folded(result, statements) ==
    IF result = <<>> THEN statements = <<>>
    ELSE \/ /\ statements # <<>>
            /\ Head(result) = Head(statements)
            /\ Folded(Tail(result), Tail(statements))
         \/ /\ StandsFor(Head(result), statements)
            /\ Folded(Tail(result),
                      SubSeq(statements,
                             Head(result).iterations * Len(Head(result).body)
                                 + 1,
                             Len(statements)))

\* C22: every loop block that the loop detector creates has between 2 and
\* 255 iterations and a body of k statements, and stands for exactly the
\* n * k statements from its position on, which are n equivalent copies of
\* its body; every other statement is kept, in order.  Three copies of two
\* statements that differ become one loop block of 3 iterations.
C22_LoopsStandForTheirRuns ==
    pc = "looped" =>
        /\ Folded(looped.value, ast)
        /\ \A a, b \in OptLeaves :
              (~are_statements_equivalent(a, b) /\ ast = <<a, b, a, b, a, b>>)
                  => looped.value = <<LoopBlock(3, <<a, b>>)>>

\* A run of 257 commands has become a loop block of 255 iterations and
\* one of 2 iterations
C22_Witness ==
    /\ pc = "looped"
    /\ Len(ast) = 257
    /\ looped.value = <<LoopBlock(255, <<ResetTimerCommand>>),
                        LoopBlock(2, <<ResetTimerCommand>>)>>

-----------------------------------------------------------------------------
(* The parser on streams that no encoder need have written: the encoding   *)
(* of a tree cut short, or bytes written freely.  What it returns is       *)
(* executed.                                                               *)

\* The encoding of a tree and every start of it
Prefixes(bytes) == {SubSeq(bytes, 1, n) : n \in 0..Len(bytes)}

\* Command codes, the markers of a loop block, a byte that continues a
\* varuint and is the code of no command, and a byte that ends a varuint
StreamBytes == {END, NOP, SLEEP, LOOP_BEGIN, LOOP_END, RESET_TIMER, 128}

RECURSIVE StreamsOfLength(_)
StreamsOfLength(n) ==
    IF n = 0 THEN {<<>>}
    ELSE {<<b>> \o rest : b \in StreamBytes, rest \in StreamsOfLength(n - 1)}

\* A sleep or a jump whose varuint is longer than its value needs, or than
\* any value below 2**28 needs
OverLongStreams ==
    {<<code>> \o field \o rest :
        code \in {SLEEP, JUMP},
        field \in {<<128, 0>>, <<153, 0>>, <<128, 128, 0>>,
                   <<128, 128, 128, 128, 0>>, <<128, 128, 128, 128, 1>>,
                   <<255, 255, 255, 255, 127>>,
                   <<128, 128, 128, 128, 128, 1>>},
        rest \in {<<>>, <<NOP>>}}

\* Loop blocks of 255 iterations are decoded in the codec specification;
\* here what is decoded is executed as well
ParserIterations == {0, 1, 2}

\* One command of every class, but for the one that sets the clock to a
\* number of frames beyond the integers of TLC (2**28 - 1 seconds)
ParserCommands == SingleCommands \ {WaitUntilCommand(VaruintLimit - 1)}

\* BytecodeParser().parse(bytes) is about to be called
InitParser ==
    /\ pc = "encoded"
    /\ \/ /\ ast \in Trees(CodecLeaves, ParserIterations, MaxNodes)
                      \cup {<<c>> : c \in ParserCommands}
          /\ bytecode \in Prefixes(StatementSequence_to_bytecode(ast))
       \/ /\ ast = <<>>
          /\ bytecode \in OverLongStreams
                           \cup UNION {StreamsOfLength(n) : n \in 1..MaxBytes}
    /\ parsed = NoResult
    /\ source = NoResult
    /\ VaruintIdle
    /\ OptIdle
    /\ PlayerIdle
    /\ PlanIdle
    /\ ExecIdle

\* list(Executor().execute(tree)) of the tree that the parser returned
ExecuteParsed ==
    /\ pc = "decoded"
    /\ parsed.err = "none"
    /\ states' = Executor_execute(parsed.value)
    /\ pc' = "executed"
    /\ UNCHANGED <<execVars, codecVars, varuintVars, level, optimised, merged,
                   opt_states, shortened, looped, again, playerVars, planVars>>

NextParser == Parse \/ ExecuteParsed

SpecParser == InitParser /\ [][NextParser]_vars

-----------------------------------------------------------------------------
(* Properties of the parser.                                               *)

\* The numbers of bytes after which a statement of the encoding of the
\* sequence ends, from offset on: a loop block of one iteration is encoded
\* as its body, a statement after the other
RECURSIVE Boundaries(_, _)
Boundaries(stmts, offset) ==
    IF stmts = <<>> THEN {offset}
    ELSE LET first == Head(stmts)
         IN  {offset}
             \cup (IF first.op = "LoopBlock" /\ first.iterations = 1
                   THEN Boundaries(first.body, offset)
                   ELSE {})
             \cup Boundaries(Tail(stmts),
                             offset + Len(Statement_to_bytecode(first)))

\* The stream is the encoding of the tree up to a byte in the middle of a
\* command or within a loop block
CutShort ==
    /\ bytecode \in Prefixes(StatementSequence_to_bytecode(ast))
    /\ Len(bytecode) \notin Boundaries(ast, 0)

\* C23: a stream that ends in the middle of a command, after its code and
\* before the last byte of its fields, or within a loop block before its
\* LOOP_END, makes the parser raise BytecodeParserEOFError.
C23_CutShortIsEOFError ==
    pc \in {"decoded", "executed"} /\ CutShort
        => parsed.err = "BytecodeParserEOFError"

\* The stream ended within the varuint of a sleep command
C23_Witness ==
    /\ pc = "decoded"
    /\ ast = <<SleepCommand(16384)>>
    /\ bytecode = <<SLEEP, 128, 128>>
    /\ parsed.err = "BytecodeParserEOFError"

\* The bytes are one whole varuint that is longer than need be: it has more
\* than the four bytes that hold any value below 2**28, or its last group
\* of seven bits is zero and not the only one
OverLong(field) ==
    /\ Len(field) >= 2
    /\ \A i \in 1..(Len(field) - 1) : field[i] >= 128
    /\ field[Len(field)] < 128
    /\ Len(field) > 4 \/ field[Len(field)] = 0

\* C24: a command whose varuint field is over-long makes the parser raise
\* BytecodeParserError (of which BytecodeParserEOFError is a kind): no
\* value is returned and no error of another type is raised.
C24_OverLongIsParserError ==
    /\ pc \in {"decoded", "executed"}
    /\ bytecode # <<>>
    /\ Head(bytecode) \in {SLEEP, WAIT_UNTIL, JUMP}
    /\ \E n \in 2..Len(bytecode) : OverLong(SubSeq(bytecode, 2, n))
    => parsed.err \in {"BytecodeParserError", "BytecodeParserEOFError"}

\* C28: the parser raises an error or returns a tree that accounts for
\* every byte of the stream: it leaves no byte unread, a LOOP_END outside
\* a loop block and what follows it included.
C28_EveryByteAccountedFor ==
    pc \in {"decoded", "executed"} /\ parsed.err = "none"
        => parsed.rest = <<>>

\* C29: the execution of a tree that the parser has returned raises no
\* error: every statement that the parser returns can be executed.
C29_ParsedTreesExecute ==
    pc = "executed" => states.status # "error"

-----------------------------------------------------------------------------
(* unroll: the states of the executor with the fades sampled frame by      *)
(* frame.  Timestamps are in frames of 1/50 s.  The mixing ratios are      *)
(* Decimal numbers; the fades of the model last 2 or 4 frames, so that     *)
(* every ratio is a finite decimal fraction and the arithmetic is exact.   *)

\* _frames_between(start, end), which _unroll calls without the fps it was
\* given: the whole frames of Duration.FPS between the two, both left out
frames_between(start, end) ==
    [i \in 1..Max(0, end - start - 1) |-> start + i]

\* One round of the loop of _unroll
unroll_event(prev_event, event) ==
    IF event.is_fade
    THEN LET start == prev_event.timestamp
             end == event.timestamp
             between == frames_between(start, end)
         IN  [i \in 1..Len(between) |->
                 ExecutorState(between[i],
                               mix_with(prev_event.color, event.color,
                                        between[i] - start, end - start),
                               FALSE)]
             \o <<[event EXCEPT !.is_fade = FALSE]>>
    ELSE <<event>>

\* _unroll(events, fps): the loop over consecutive_pairs(chain([start],
\* events)), from the pair (prev_event, events[1]) on
RECURSIVE _unroll(_, _, _)
_unroll(prev_event, remaining, rate) ==
    IF remaining = <<>> THEN <<>>
    ELSE unroll_event(prev_event, Head(remaining))
         \o _unroll(Head(remaining), Tail(remaining), rate)

\* remove_duplicates(events): the last one of the events of each timestamp
remove_duplicates(timed) ==
    LET kept == {i \in 1..Len(timed) :
                    i = Len(timed)
                    \/ timed[i + 1].timestamp # timed[i].timestamp}
        RECURSIVE pick(_)
        pick(i) == IF i > Len(timed) THEN <<>>
                   ELSE (IF i \in kept THEN <<timed[i]>> ELSE <<>>)
                        \o pick(i + 1)
    IN  pick(1)

\* unroll(events, fps)
unroll(timed, rate) ==
    remove_duplicates(_unroll(ExecutorState(0, Color_BLACK, FALSE), timed,
                              rate))

\* The frame rates that unroll is asked for
UnrollRates == {25, 50, 100}

UnrollLeaves ==
    {SetColorCommand(RGBColor(3, 3, 3), 0), SetColorCommand(Orange, 1),
     SleepCommand(0), SleepCommand(1), WaitUntilCommand(0),
     FadeToColorCommand(RGBColor(0, 5, 1), 2), FadeToColorCommand(Orange, 4),
     FadeToBlackCommand(4), EndCommand}

UnrollIterations == {1, 2}

\* unroll(Executor().execute(ast), fps), before the first next()
InitUnroll ==
    /\ pc = "executing"
    /\ ast \in Trees(UnrollLeaves, UnrollIterations, MaxExecNodes)
    /\ bytecode = <<>>
    /\ parsed = NoResult
    /\ source = NoResult
    /\ executor = Executor_init
    /\ previous = Executor_init
    /\ position = 0
    /\ unrolled = <<>>
    /\ fps \in UnrollRates
    /\ frames = <<>>
    /\ VaruintIdle
    /\ OptIdle
    /\ PlayerIdle
    /\ PlanIdle

\* list(unroll(...)) once the executor has yielded its last state
Unroll ==
    /\ pc = "executed"
    /\ executor.status \in {"running", "stopped"}
    /\ unrolled' = unroll(executor.yielded, fps)
    /\ pc' = "unrolled"
    /\ UNCHANGED <<codecVars, varuintVars, optVars, playerVars, planVars,
                   executor, previous, position, fps, frames>>

NextUnroll == ExecuteStatement \/ Finish \/ Unroll

SpecUnroll == InitUnroll /\ [][NextUnroll]_vars

\* The interpolation of a channel at num / den of the way, rounded one way
\* or the other when it is half way between two integers
IsRounded(value, from, to, num, den) ==
    LET exact == from * (den - num) + to * num
        diff == value * den - exact
    IN  2 * diff <= den /\ -2 * diff <= den

\* C25: the states that unroll yields have timestamps that increase, and
\* between two states of the executor of which the second ends a fade
\* there is exactly one state at each whole frame of the frame rate asked
\* for, with the color interpolated between the two, each channel rounded.
\* Times are compared in hundredths of a second: a frame of the executor
\* is 2 of them, a frame of the rate asked for is 100 / fps.
C25_UnrollSamplesEveryFrame ==
    pc = "unrolled" =>
        /\ \A i \in 1..(Len(unrolled) - 1) :
              unrolled[i].timestamp < unrolled[i + 1].timestamp
        /\ \A i \in 1..(Len(executor.yielded) - 1) :
              LET s0 == executor.yielded[i]
                  s1 == executor.yielded[i + 1]
              IN  s1.is_fade =>
                  \A h \in (2 * s0.timestamp + 1)..(2 * s1.timestamp - 1) :
                      h % (100 \div fps) = 0 =>
                          /\ Cardinality({j \in 1..Len(unrolled) :
                                 2 * unrolled[j].timestamp = h}) = 1
                          /\ \A j \in 1..Len(unrolled) :
                                2 * unrolled[j].timestamp = h =>
                                    LET num == h - 2 * s0.timestamp
                                        den == 2 * (s1.timestamp - s0.timestamp)
                                        c == unrolled[j].color
                                    IN  /\ IsRounded(c.red, s0.color.red,
                                                     s1.color.red, num, den)
                                        /\ IsRounded(c.green, s0.color.green,
                                                     s1.color.green, num, den)
                                        /\ IsRounded(c.blue, s0.color.blue,
                                                     s1.color.blue, num, den)

-----------------------------------------------------------------------------
(* Stages added while the plan is executed.                                *)

\* The stages that callbacks have added to the plan
AddedStages == {steps[i] : i \in {j \in 1..Len(steps) : steps[j] >= AddedStage}}

\* C26: the stages that done callbacks add while Plan.execute runs, at the
\* end of the list or after the stage that has just run, are run in that
\* call, once each and in the order of the list, and no stage is run
\* again: the stages run so far are distinct and in list order, and once
\* the loop has gone round as many times as there are stages, or execute
\* has returned, every added stage that is to run has run.
C26_AddedStagesRunOnce ==
    pc \in {"loop", "returned"} =>
        /\ \A i, j \in 1..Len(ran) :
              i < j => list_index(steps, ran[i]) < list_index(steps, ran[j])
        /\ (pc = "returned" \/ Len(considered) >= Len(steps)) =>
              \A stage \in AddedStages :
                  runs(stage) => \E i \in 1..Len(ran) : ran[i] = stage

-----------------------------------------------------------------------------
(* The .led source form of a tree.  A text is the sequence of its lines,   *)
(* the strings between its newline characters, so that the empty text is   *)
(* one empty line; joining texts with a newline concatenates the lines.    *)

EmptyText == <<"">>

RECURSIVE join_lines(_)
\* "\n".join(texts)
join_lines(texts) ==
    IF texts = <<>> THEN EmptyText
    ELSE IF Len(texts) = 1 THEN texts[1]
    ELSE texts[1] \o join_lines(Tail(texts))

\* prefix + text.replace("\n", "\n" + prefix): every line is moved to the right
indented(prefix, text) == [i \in 1..Len(text) |-> prefix \o text[i]]

\* repr() of a node that has a value field only
Node_repr(name, value) == name \o "(value=" \o ToString(value) \o ")"

\* "{0}".format(n) of an integer
DecimalDigits(n) == ToString(n)

Rule == "############################################################################"

Comment_to_led_source(node) ==
    <<"", Rule, "comment('" \o node.value \o "')", Rule, "">>

RECURSIVE to_led_source(_)
RECURSIVE StatementSequence_to_led_source(_)

LoopBlock_to_led_source(node) ==
    IF node.body = <<>> \/ node.iterations < 0 THEN EmptyText
    ELSE LET body == StatementSequence_to_led_source(node.body)
         IN  IF node.iterations = 1 THEN body
             ELSE <<"with loop(iterations="
                        \o Node_repr("UnsignedByte", node.iterations) \o "):">>
                  \o indented("    ", body)

to_led_source(node) ==
    CASE node.op = "EndCommand" -> <<"end()">>
      [] node.op = "NopCommand" -> <<"nop()">>
      [] node.op = "Comment" -> Comment_to_led_source(node)
      [] node.op = "LoopBlock" -> LoopBlock_to_led_source(node)

StatementSequence_to_led_source(statements) ==
    join_lines([i \in 1..Len(statements) |-> to_led_source(statements[i])])

SourceLeaves == {EndCommand, NopCommand, Comment("c")}

SourceIterations == {0, 1, 2, 255}

InitSource ==
    /\ pc = "tree"
    /\ ast \in Trees(SourceLeaves, SourceIterations, MaxNodes)
    /\ bytecode = <<>>
    /\ parsed = NoResult
    /\ source = NoResult
    /\ VaruintIdle
    /\ OptIdle
    /\ PlayerIdle
    /\ PlanIdle
    /\ ExecIdle

\* ast.to_led_source()
ToLedSource ==
    /\ pc = "tree"
    /\ source' = StatementSequence_to_led_source(ast)
    /\ pc' = "printed"
    /\ UNCHANGED <<execVars, ast, bytecode, parsed, varuintVars, optVars,
                   playerVars, planVars>>

NextSource == ToLedSource

SpecSource == InitSource /\ [][NextSource]_vars

RECURSIVE ClaimedText(_)
\* The text of a statement sequence when every loop block is printed as the
\* binary form collapses: nothing for no iterations or an empty body, the
\* body alone for one iteration, else the header with the decimal count and
\* the lines of the body moved four spaces to the right
ClaimedText(statements) ==
    join_lines([i \in 1..Len(statements) |->
        LET node == statements[i]
        IN  IF node.op # "LoopBlock" THEN to_led_source(node)
            ELSE IF node.iterations = 0 \/ node.body = <<>> THEN EmptyText
            ELSE IF node.iterations = 1 THEN ClaimedText(node.body)
            ELSE <<"with loop(iterations=" \o DecimalDigits(node.iterations) \o "):">>
                 \o indented("    ", ClaimedText(node.body))])

\* C27: the text of a loop block is empty when it has no iterations or an
\* empty body, is the text of the body when it has one iteration, and is
\* otherwise the line "with loop(iterations=N):", N the iteration count in
\* decimal, followed by the lines of the body moved four spaces to the
\* right; so the text of every tree is the one built that way.
C27_LoopTextMirrorsBinary ==
    pc = "printed" => source = ClaimedText(ast)

-----------------------------------------------------------------------------
(* The player, step by step: the generator Executor().execute(ast) is run  *)
(* one statement at a time while Player.get_color_at waits for next().     *)
(* The states a statement yields are kept in executor.yielded until the    *)
(* player takes them.                                                      *)

\* A statement sequence being executed: the index of its next statement,
\* the loop variable i, and the iterations of the loop block (0: count()).
\* No statement reads i, and that of count() is kept modulo CountModulus.
Frame(statements, iterations) ==
    [statements |-> statements, index |-> 1, i |-> 0, iterations |-> iterations]

CountModulus == 2

\* Executor().execute(ast) before its first next()
RootFrames(statements) == <<Frame(statements, 1)>>

\* The generator runs up to the end of one statement: a command is
\* executed, a loop block is entered, or a round of a loop is over
generator_step(ex, stack) ==
    LET depth == Len(stack)
        top == stack[depth]
    IN  IF top.index > Len(top.statements)
        THEN IF ~(top.iterations > 0)
             THEN [ex |-> ex,
                   frames |-> [stack EXCEPT ![depth].index = 1,
                                            ![depth].i = (@ + 1) % CountModulus]]
             ELSE IF top.i + 1 < top.iterations
             THEN [ex |-> ex,
                   frames |-> [stack EXCEPT ![depth].index = 1,
                                            ![depth].i = @ + 1]]
             ELSE [ex |-> ex, frames |-> SubSeq(stack, 1, depth - 1)]
        ELSE LET node == top.statements[top.index]
                 advanced == [stack EXCEPT ![depth].index = @ + 1]
             IN  IF node.op = "LoopBlock"
                 THEN [ex |-> ex,
                       frames |-> Append(advanced,
                                         Frame(node.body, node.iterations))]
                 ELSE LET after == execute(ex, node)
                      IN  [ex |-> after,
                           frames |-> IF after.status = "running"
                                      THEN advanced ELSE <<>>]

SeekLeaves ==
    {SetColorCommand(Orange, 1), FadeToColorCommand(Gray, 2), SleepCommand(0),
     NopCommand, EndCommand, ResetTimerCommand}

SeekIterations == {0, 2}

\* Timestamps in ticks: before _START, zero, and two frames
SeekTimes == {-200000, 0, 4000}

MaxSeeks == 2

RECURSIVE SeekSequences(_)
SeekSequences(n) ==
    IF n = 0 THEN {<<>>}
    ELSE {<<>>} \cup {<<t>> \o rest : t \in SeekTimes,
                                      rest \in SeekSequences(n - 1)}

\* Player(ast), and the queries that will be made
InitSeek ==
    /\ pc = "playing"
    /\ ast \in Trees(SeekLeaves, SeekIterations, MaxPlayerNodes)
    /\ bytecode = <<>>
    /\ parsed = NoResult
    /\ source = NoResult
    /\ events = rewind(<<>>).events
    /\ last_event_time = rewind(<<>>).last_event_time
    /\ event_iter = rewind(<<>>).event_iter
    /\ queries \in SeekSequences(MaxSeeks)
    /\ answers = <<>>
    /\ executor = Executor_init
    /\ previous = NoResult
    /\ position = 0
    /\ unrolled = <<>>
    /\ fps = 0
    /\ frames = RootFrames(ast)
    /\ VaruintIdle
    /\ OptIdle
    /\ PlanIdle

\* The start of Player.get_color_at(Head(queries)): "if self._events and
\* timestamp < self._events[0].timestamp: self._rewind()"
BeginGetColorAt ==
    /\ pc = "playing"
    /\ queries # <<>>
    /\ IF events # <<>> /\ Head(queries) < events[1].timestamp
       THEN /\ events' = rewind(<<>>).events
            /\ last_event_time' = rewind(<<>>).last_event_time
            /\ event_iter' = rewind(<<>>).event_iter
            /\ executor' = Executor_init
            /\ frames' = RootFrames(ast)
       ELSE UNCHANGED <<events, last_event_time, event_iter, executor, frames>>
    /\ pc' = "forwarding"
    /\ UNCHANGED <<codecVars, varuintVars, optVars, planVars, queries, answers,
                   previous, position, unrolled, fps>>

\* next(self._event_iter, _END) is waiting and the generator goes on by one
\* statement
StepGenerator ==
    /\ pc = "forwarding"
    /\ Head(queries) >= last_event_time
    /\ event_iter.kind # "None"
    /\ executor.yielded = <<>>
    /\ frames # <<>>
    /\ LET step == generator_step(executor, frames)
       IN  /\ executor' = step.ex
           /\ frames' = step.frames
    /\ UNCHANGED <<pc, codecVars, varuintVars, optVars, playerVars, planVars,
                   previous, position, unrolled, fps>>

\* The generator has raised RuntimeError, which leaves next(),
\* _get_next_event and get_color_at
RaiseFromGenerator ==
    /\ pc = "forwarding"
    /\ Head(queries) >= last_event_time
    /\ event_iter.kind # "None"
    /\ executor.yielded = <<>>
    /\ frames = <<>>
    /\ executor.status = "error"
    /\ executor' = [executor EXCEPT !.status = "raised"]
    /\ answers' = Append(answers, [timestamp |-> Head(queries),
                                   result |-> Raised("RuntimeError")])
    /\ queries' = Tail(queries)
    /\ pc' = "playing"
    /\ UNCHANGED <<codecVars, varuintVars, optVars, planVars, events,
                   last_event_time, event_iter, previous, position, unrolled,
                   fps, frames>>

\* Player._get_next_event when next() returns: with the state that the
\* generator has yielded, or with _END when the generator is finished
GetNextEvent ==
    /\ pc = "forwarding"
    /\ Head(queries) >= last_event_time
    /\ event_iter.kind # "None"
    /\ executor.yielded # <<>> \/ (frames = <<>> /\ executor.status # "error")
    /\ LET player == [events |-> events, last_event_time |-> last_event_time,
                      event_iter |-> event_iter, raised |-> "none"]
           event == IF executor.yielded # <<>>
                    THEN [Head(executor.yielded) EXCEPT
                              !.timestamp = @ * TicksPerFrame]
                    ELSE Player_END
           stored == store_event(player, event, event_iter)
       IN  /\ events' = stored.events
           /\ last_event_time' = stored.last_event_time
           /\ event_iter' = stored.event_iter
    /\ executor' = [executor EXCEPT !.yielded = IF @ = <<>> THEN @ ELSE Tail(@)]
    /\ UNCHANGED <<pc, codecVars, varuintVars, optVars, planVars, queries,
                   answers, previous, position, unrolled, fps, frames>>

\* "while timestamp >= self._last_event_time" is over: the color of the
\* bracketing pair is returned
ReturnColor ==
    /\ pc = "forwarding"
    /\ ~(Head(queries) >= last_event_time)
    /\ answers' = Append(answers, [timestamp |-> Head(queries),
                                   result |-> bracket_color(events, Head(queries))])
    /\ queries' = Tail(queries)
    /\ pc' = "playing"
    /\ UNCHANGED <<codecVars, varuintVars, optVars, planVars, events,
                   last_event_time, event_iter, execVars>>

NextSeek ==
    \/ BeginGetColorAt
    \/ StepGenerator
    \/ RaiseFromGenerator
    \/ GetNextEvent
    \/ ReturnColor

\* A call of get_color_at that can go on does go on
SpecSeek == InitSeek /\ [][NextSeek]_vars /\ WF_vars(NextSeek)

\* C30: every call of Player.get_color_at with a finite timestamp comes
\* back, with a color or an exception, after finitely many steps of the
\* executor, whatever the light program, loops of zero iterations included.
C30_GetColorAtReturns ==
    (pc = "forwarding") ~> (pc = "playing")

====
